---- MODULE Spec2Model ----
(***************************************************************************)
(* A model of the typing-AST visitor of the Move compiler                  *)
(* (move-compiler/src/inlining/visitor.rs).                                *)
(*                                                                         *)
(* The Dispatcher walks a Function by ordinary recursion.  The recursion   *)
(* is modelled with an explicit call stack: a frame names the method that  *)
(* is running, the node it was handed (as a path into the function, which  *)
(* stands for the `&mut` reference) and the position inside the method.    *)
(* Every call of a Visitor hook is appended to `trace`.                    *)
(***************************************************************************)
EXTENDS Integers, Sequences, FiniteSets, TLC

\* ------------------------------------------------------------------------
\* Bounds of the model
\* ------------------------------------------------------------------------

\* the Visitor returns Stop at most this many times in one traversal
MaxStops == 1
\* longest parameter list of a generated function
MaxParams == 2
\* longest generated statement sequence
MaxSeqLen == 2
\* deepest generated nesting of blocks and lambdas
MaxNest == 1
\* how many times the Dispatcher is run over the same function
MaxRuns == 2
\* the rewrites the exp hook makes in one traversal
MaxRewrites == 1
\* the highest version a lock file header holds, and the most dependency
\* entries a lock file lists
MaxVersion == 2
MaxDeps == 2
\* the most declarations added to one IntrinsicsAnnotation
MaxDecls == 3

\* ------------------------------------------------------------------------
\* The typed AST (naming::ast::Type_, typing::ast::*)
\* ------------------------------------------------------------------------

\* Type_ : the atomic kinds, Ref and Apply
TUnit == [kind |-> "Unit"]
TParam == [kind |-> "Param"]
TVar == [kind |-> "Var"]
TAnything == [kind |-> "Anything"]
TUnresolvedError == [kind |-> "UnresolvedError"]
TRef(t) == [kind |-> "Ref", ty |-> t]
TApply(tys) == [kind |-> "Apply", tys |-> tys]
\* Option<Type>::None, in the type lists of Bind and Assign
TNone == [kind |-> "None"]

\* the atomic kinds of Type_, the ones Dispatcher::type_ does not descend into
AtomicKinds == {"Unit", "Param", "Var", "Anything", "UnresolvedError"}

\* LValue_
LVar(v, t) == [kind |-> "Var", var |-> v, ty |-> t]
LIgnore == [kind |-> "Ignore"]
\* a field of Unpack / BorrowUnpack / Pack: (Field, (idx, (Type, payload)))
LField(t, lv) == [ty |-> t, lv |-> lv]
LUnpack(tys, fields) == [kind |-> "Unpack", tys |-> tys, fields |-> fields]
LBorrowUnpack(tys, fields) == [kind |-> "BorrowUnpack", tys |-> tys, fields |-> fields]

\* UnannotatedExp_, each wrapped in an Exp carrying the inferred type `ty`
ELeaf(k, t) == [kind |-> k, ty |-> t]
EVarRef(k, t, v) == [kind |-> k, ty |-> t, var |-> v]
EUse(v) == EVarRef("Use", TUnit, v)
EUnit == ELeaf("Unit", TUnit)
\* UnannotatedExp_::Value with the literal it holds
EValue(t, v) == [kind |-> "Value", ty |-> t, value |-> v]
EVarCall(t, v, ex) == [kind |-> "VarCall", ty |-> t, var |-> v, ex |-> ex]
EModuleCall(t, targs, ptys, args) ==
    [kind |-> "ModuleCall", ty |-> t, type_arguments |-> targs,
     parameter_types |-> ptys, arguments |-> args]
ELambda(t, decls, body) == [kind |-> "Lambda", ty |-> t, decls |-> decls, body |-> body]
EIfElse(t, c, i, e) == [kind |-> "IfElse", ty |-> t, cex |-> c, iex |-> i, eex |-> e]
EWhile(t, c, b) == [kind |-> "While", ty |-> t, cex |-> c, bex |-> b]
EBlock(t, seq) == [kind |-> "Block", ty |-> t, seq |-> seq]
EMutate(t, d, s) == [kind |-> "Mutate", ty |-> t, dex |-> d, sex |-> s]
EBinopExp(t, l, bt, r) == [kind |-> "BinopExp", ty |-> t, lex |-> l, bty |-> bt, rex |-> r]
EField(t, ex) == [ty |-> t, ex |-> ex]
EPack(t, tys, fields) == [kind |-> "Pack", ty |-> t, tys |-> tys, fields |-> fields]
ESingle(ex, t) == [kind |-> "Single", ex |-> ex, ty |-> t]
ESplat(ex, tys) == [kind |-> "Splat", ex |-> ex, tys |-> tys]
EExpList(t, items) == [kind |-> "ExpList", ty |-> t, items |-> items]
EAssign(t, lhs, tys, ex) == [kind |-> "Assign", ty |-> t, lhs |-> lhs, tys |-> tys, ex |-> ex]
\* Vector, Cast, Annotate: one embedded type and one embedded expression
ETyped(k, t, ety, ex) == [kind |-> k, ty |-> t, ety |-> ety, ex |-> ex]
\* Loop, Builtin, Return, Abort, Dereference, UnaryExp, Borrow, TempBorrow
EUnary(k, t, ex) == [kind |-> k, ty |-> t, ex |-> ex]

\* SequenceItem_
SBind(decls, tys, e) == [kind |-> "Bind", decls |-> decls, tys |-> tys, e |-> e]
SDeclare(decls) == [kind |-> "Declare", decls |-> decls]
SSeq(e) == [kind |-> "Seq", e |-> e]

\* Function: signature.parameters and body (FunctionBody_)
Param(v, t) == [var |-> v, ty |-> t]
Native == [kind |-> "Native"]
Defined(seq) == [kind |-> "Defined", seq |-> seq]
Fun(params, body) == [parameters |-> params, body |-> body]

\* ------------------------------------------------------------------------
\* References into the AST: a path is a sequence of <<field, index>> steps,
\* index 0 for a field that is a single node
\* ------------------------------------------------------------------------

Child(node, step) == IF step[2] = 0 THEN node[step[1]] ELSE node[step[1]][step[2]]

RECURSIVE At(_, _)
At(node, path) == IF path = <<>> THEN node ELSE At(Child(node, Head(path)), Tail(path))

\* node with the subtree at path replaced by new
RECURSIVE Replace(_, _, _)
Replace(node, path, new) ==
    IF path = <<>> THEN new
    ELSE LET s == Head(path)
         IN IF s[2] = 0
            THEN [node EXCEPT ![s[1]] = Replace(node[s[1]], Tail(path), new)]
            ELSE [node EXCEPT ![s[1]][s[2]] = Replace(node[s[1]][s[2]], Tail(path), new)]

\* q lies strictly below p
IsPrefix(p, q) == Len(p) <= Len(q) /\ SubSeq(q, 1, Len(p)) = p
StrictlyBelow(q, p) == IsPrefix(p, q) /\ Len(q) > Len(p)

\* ------------------------------------------------------------------------
\* The Visitor (visitor.rs:16-34): its hooks are recorded as events
\* ------------------------------------------------------------------------

\* VisitorContinuation
VisitorContinuation == {"Stop", "Descend"}

\* one call of a hook: the hook, the node it was handed, the variable for
\* var_decl / var_use, and the value returned by exp / type_
Ev(hook, path, var, ret) == [hook |-> hook, path |-> path, var |-> var, ret |-> ret]

\* ------------------------------------------------------------------------
\* The Dispatcher (visitor.rs:36-242)
\* ------------------------------------------------------------------------

\* a stack frame: method, node, position in the method, and the locals
\* (`i`, `n` = the loop index and scope_cnt of sequence; `declared` of lvalue)
Frame(fn, path, pc) ==
    [fn |-> fn, path |-> path, pc |-> pc, i |-> 0, n |-> 0, declared |-> FALSE]
TypeF(p) == Frame("type_", p, "start")
ExpF(p) == Frame("exp", p, "start")
LvF(p, d) == [Frame("lvalue", p, "start") EXCEPT !.declared = d]
SeqF(p, i, n) == [Frame("sequence", p, "loop") EXCEPT !.i = i, !.n = n]

RECURSIVE Concat(_)
Concat(ss) == IF ss = <<>> THEN <<>> ELSE Head(ss) \o Concat(Tail(ss))

\* the configuration of a traversal: the function being walked, the call
\* stack (top first), the hook calls so far, the scopes the Visitor has
\* open (innermost last, each named by the node that opened it) and the
\* number of Stop answers the Visitor has given
Config(f, st, tr, sc, sp) ==
    [fdef |-> f, stack |-> st, trace |-> tr, scopes |-> sc, stops |-> sp]

Top(c) == Head(c.stack)
Pop(c) == [c EXCEPT !.stack = Tail(c.stack)]
Push(c, frames) == [c EXCEPT !.stack = frames \o c.stack]
Emit(c, hook, path, var, ret) ==
    [c EXCEPT !.trace = Append(c.trace, Ev(hook, path, var, ret)),
              !.stops = IF ret = "Stop" THEN c.stops + 1 ELSE c.stops]
EnterScope(c, path) ==
    [Emit(c, "enter_scope", path, "", "") EXCEPT !.scopes = Append(c.scopes, path)]
ExitScope(c, path) ==
    [Emit(c, "exit_scope", path, "", "") EXCEPT
        !.scopes = IF c.scopes = <<>> THEN <<>> ELSE SubSeq(c.scopes, 1, Len(c.scopes) - 1)]

\* faulty variant of the closing loop: `while scope_cnt > 1`
RECURSIVE ExitScopes_OneShort(_, _, _)
ExitScopes_OneShort(c, path, n) ==
    IF n <= 1 THEN c ELSE ExitScopes_OneShort(ExitScope(c, path), path, n - 1)

\* faulty variant of the closing loop: `if scope_cnt > 0` for `while`
ExitScopes_Once(c, path, n) == IF n = 0 THEN c ELSE ExitScope(c, path)

RECURSIVE ExitScopes(_, _, _)
ExitScopes(c, path, n) == IF n = 0 THEN c ELSE ExitScopes(ExitScope(c, path), path, n - 1)

\* fn types: type_ on every element of the list `f` of node p, in order;
\* the callers' filter_map drops the None entries of an Option<Type> list
types(fdef, p, f) ==
    LET n == Len(At(fdef, p)[f])
        all == [k \in 1..n |-> TypeF(Append(p, <<f, k>>))]
        IsSome(fr) == At(fdef, fr.path).kind # "None"
    IN SelectSeq(all, IsSome)

\* fn lvalue_list: lvalue on every element of the list `f` of node p
lvalue_list(fdef, p, f, declared) ==
    [k \in 1..Len(At(fdef, p)[f]) |-> LvF(Append(p, <<f, k>>), declared)]

\* faulty variant of function: the parameters registered from right to left
function_ReversedParams(c) ==
    LET fr == Top(c)
        params == c.fdef.parameters
        RECURSIVE Decls(_, _)
        Decls(d, k) ==
            IF k < 1 THEN d
            ELSE Decls(Emit(d, "var_decl", <<<<"parameters", k>>>>, params[k].var, ""), k - 1)
    IN IF fr.pc = "start"
       THEN LET d == Decls(EnterScope(Pop(c), <<>>), Len(params))
            IN IF c.fdef.body.kind = "Native"
               THEN ExitScope(d, <<>>)
               ELSE Push(d, <<SeqF(<<<<"body", 0>>>>, 1, 0), Frame("function", <<>>, "exit")>>)
       ELSE ExitScope(Pop(c), <<>>)

\* faulty variant of function: the Dispatcher remembers that a hook has
\* answered Stop and leaves out the body from then on
function_RemembersStop(c) ==
    LET fr == Top(c)
        params == c.fdef.parameters
        RECURSIVE Decls(_, _)
        Decls(d, k) ==
            IF k > Len(params) THEN d
            ELSE Decls(Emit(d, "var_decl", <<<<"parameters", k>>>>, params[k].var, ""), k + 1)
    IN IF fr.pc = "start"
       THEN LET d == Decls(EnterScope(Pop(c), <<>>), 1)
            IN IF c.fdef.body.kind = "Native" \/ c.stops > 0
               THEN ExitScope(d, <<>>)
               ELSE Push(d, <<SeqF(<<<<"body", 0>>>>, 1, 0), Frame("function", <<>>, "exit")>>)
       ELSE ExitScope(Pop(c), <<>>)

\* faulty variant of function: a native body returns before exit_scope
function_NativeLeftOpen(c) ==
    LET fr == Top(c)
        params == c.fdef.parameters
        RECURSIVE Decls(_, _)
        Decls(d, k) ==
            IF k > Len(params) THEN d
            ELSE Decls(Emit(d, "var_decl", <<<<"parameters", k>>>>, params[k].var, ""), k + 1)
    IN IF fr.pc = "start"
       THEN LET d == Decls(EnterScope(Pop(c), <<>>), 1)
            IN IF c.fdef.body.kind = "Native"
               THEN d
               ELSE Push(d, <<SeqF(<<<<"body", 0>>>>, 1, 0), Frame("function", <<>>, "exit")>>)
       ELSE ExitScope(Pop(c), <<>>)

\* fn function
function(c) ==
    LET fr == Top(c)
        params == c.fdef.parameters
        RECURSIVE Decls(_, _)
        Decls(d, k) ==
            IF k > Len(params) THEN d
            ELSE Decls(Emit(d, "var_decl", <<<<"parameters", k>>>>, params[k].var, ""), k + 1)
    IN IF fr.pc = "start"
       THEN LET d == Decls(EnterScope(Pop(c), <<>>), 1)
            IN IF c.fdef.body.kind = "Native"
               THEN ExitScope(d, <<>>)
               ELSE Push(d, <<SeqF(<<<<"body", 0>>>>, 1, 0), Frame("function", <<>>, "exit")>>)
       ELSE ExitScope(Pop(c), <<>>)

\* faulty variant of type_: infer_abilities before the type arguments
type_InferFirst(c, r) ==
    LET fr == Top(c)
        p == fr.path
        ty == At(c.fdef, p)
    IN IF fr.pc = "start"
       THEN LET d == Emit(Pop(c), "type_", p, "", r)
            IN IF r = "Stop" THEN d
               ELSE CASE ty.kind = "Ref" -> Push(d, <<TypeF(Append(p, <<"ty", 0>>))>>)
                      [] ty.kind = "Apply" ->
                            Push(d, <<Frame("type_", p, "infer")>> \o types(c.fdef, p, "tys"))
                      [] OTHER -> d
       ELSE Emit(Pop(c), "infer_abilities", p, "", "")

\* faulty variant of type_: Stop skips the type arguments of an applied type
\* but not its infer_abilities
type_StopStillInfers(c, r) ==
    LET fr == Top(c)
        p == fr.path
        ty == At(c.fdef, p)
    IN IF fr.pc = "start"
       THEN LET d == Emit(Pop(c), "type_", p, "", r)
            IN CASE ty.kind = "Ref" ->
                      IF r = "Stop" THEN d ELSE Push(d, <<TypeF(Append(p, <<"ty", 0>>))>>)
                 [] ty.kind = "Apply" ->
                      Push(d, (IF r = "Stop" THEN <<>> ELSE types(c.fdef, p, "tys"))
                                  \o <<Frame("type_", p, "infer")>>)
                 [] OTHER -> d
       ELSE Emit(Pop(c), "infer_abilities", p, "", "")

\* faulty variant of type_: Stop returns from the caller as well
type_StopReturnsTwice(c, r) ==
    LET fr == Top(c)
        p == fr.path
        ty == At(c.fdef, p)
    IN IF fr.pc = "start"
       THEN LET d == Emit(Pop(c), "type_", p, "", r)
            IN IF r = "Stop" THEN (IF d.stack = <<>> THEN d ELSE Pop(d))
               ELSE CASE ty.kind = "Ref" -> Push(d, <<TypeF(Append(p, <<"ty", 0>>))>>)
                      [] ty.kind = "Apply" ->
                            Push(d, types(c.fdef, p, "tys") \o <<Frame("type_", p, "infer")>>)
                      [] OTHER -> d
       ELSE Emit(Pop(c), "infer_abilities", p, "", "")

\* faulty variant of type_: a reference is handed to infer_abilities after
\* its referent
type_RefInfers(c, r) ==
    LET fr == Top(c)
        p == fr.path
        ty == At(c.fdef, p)
    IN IF fr.pc = "start"
       THEN LET d == Emit(Pop(c), "type_", p, "", r)
            IN IF r = "Stop" THEN d
               ELSE CASE ty.kind = "Ref" ->
                            Push(d, <<TypeF(Append(p, <<"ty", 0>>)), Frame("type_", p, "infer")>>)
                      [] ty.kind = "Apply" ->
                            Push(d, types(c.fdef, p, "tys") \o <<Frame("type_", p, "infer")>>)
                      [] OTHER -> d
       ELSE Emit(Pop(c), "infer_abilities", p, "", "")

\* fn type_
type_(c, r) ==
    LET fr == Top(c)
        p == fr.path
        ty == At(c.fdef, p)
    IN IF fr.pc = "start"
       THEN LET d == Emit(Pop(c), "type_", p, "", r)
            IN IF r = "Stop" THEN d
               ELSE CASE ty.kind = "Ref" -> Push(d, <<TypeF(Append(p, <<"ty", 0>>))>>)
                      [] ty.kind = "Apply" ->
                            Push(d, types(c.fdef, p, "tys") \o <<Frame("type_", p, "infer")>>)
                      [] OTHER -> d
       ELSE Emit(Pop(c), "infer_abilities", p, "", "")

\* the arms of the match in exp_unannotated, one per group of variants;
\* each is handed the expression at p after the exp hook has answered Descend
Sub(p, f) == Append(p, <<f, 0>>)
Fld(p, f, j, g) == Append(Append(p, <<f, j>>), <<g, 0>>)

\* faulty variant of the ModuleCall arm: parameter types before type arguments
arm_ModuleCall_ParamsFirst(c, p) ==
    Push(c, types(c.fdef, p, "parameter_types")
                \o types(c.fdef, p, "type_arguments")
                \o <<ExpF(Sub(p, "arguments"))>>)

arm_ModuleCall(c, p) ==
    Push(c, types(c.fdef, p, "type_arguments")
                \o types(c.fdef, p, "parameter_types")
                \o <<ExpF(Sub(p, "arguments"))>>)

\* faulty variant of the variable reference arm: the traversal itself
\* rewrites the variable it has reported
arm_VarRef_Rewrites(c, p) ==
    LET d == Emit(c, "var_use", p, At(c.fdef, p).var, "")
    IN [d EXCEPT !.fdef = Replace(c.fdef, p, [At(c.fdef, p) EXCEPT !.var = "renamed"])]

\* Use, Copy, Move, BorrowLocal
arm_VarRef(c, p) == Emit(c, "var_use", p, At(c.fdef, p).var, "")

\* faulty variant of the VarCall arm: the callee variable is not reported
arm_VarCall_NoUse(c, p) == Push(c, <<ExpF(Sub(p, "ex"))>>)

arm_VarCall(c, p) ==
    Push(Emit(c, "var_use", p, At(c.fdef, p).var, ""), <<ExpF(Sub(p, "ex"))>>)

\* faulty variant of the Lambda arm: the parameters are declared without a
\* scope of their own
arm_Lambda_NoEnter(c, p) ==
    Push(c, lvalue_list(c.fdef, p, "decls", TRUE)
                \o <<ExpF(Sub(p, "body")), Frame("exp_unannotated", p, "lambda_exit")>>)

arm_Lambda(c, p) ==
    Push(EnterScope(c, p),
         lvalue_list(c.fdef, p, "decls", TRUE)
             \o <<ExpF(Sub(p, "body")), Frame("exp_unannotated", p, "lambda_exit")>>)

\* faulty variant of the IfElse arm: on a literal condition only the branch
\* that will run is visited
arm_IfElse_Folds(c, p) ==
    LET cex == At(c.fdef, Sub(p, "cex"))
    IN IF "value" \in DOMAIN cex
       THEN Push(c, <<ExpF(Sub(p, "cex")),
                      ExpF(Sub(p, IF cex.value THEN "iex" ELSE "eex"))>>)
       ELSE Push(c, <<ExpF(Sub(p, "cex")), ExpF(Sub(p, "iex")), ExpF(Sub(p, "eex"))>>)

arm_IfElse(c, p) ==
    Push(c, <<ExpF(Sub(p, "cex")), ExpF(Sub(p, "iex")), ExpF(Sub(p, "eex"))>>)

\* faulty variant of the While arm: the condition is not visited
arm_While_BodyOnly(c, p) == Push(c, <<ExpF(Sub(p, "bex"))>>)

arm_While(c, p) == Push(c, <<ExpF(Sub(p, "cex")), ExpF(Sub(p, "bex"))>>)

\* faulty variant of the Mutate arm: the destination is visited twice and
\* the source not at all
arm_Mutate_DestinationTwice(c, p) == Push(c, <<ExpF(Sub(p, "dex")), ExpF(Sub(p, "dex"))>>)

arm_Mutate(c, p) == Push(c, <<ExpF(Sub(p, "dex")), ExpF(Sub(p, "sex"))>>)

\* faulty variant of the BinopExp arm: the fields in the order of the tuple
arm_BinopExp_TupleOrder(c, p) ==
    Push(c, <<ExpF(Sub(p, "lex")), TypeF(Sub(p, "bty")), ExpF(Sub(p, "rex"))>>)

arm_BinopExp(c, p) ==
    Push(c, <<TypeF(Sub(p, "bty")), ExpF(Sub(p, "lex")), ExpF(Sub(p, "rex"))>>)

\* faulty variant of the Pack arm: all field types before all initializers
arm_Pack_TypesFirst(c, p) ==
    Push(c, types(c.fdef, p, "tys")
                \o [j \in 1..Len(At(c.fdef, p).fields) |-> TypeF(Fld(p, "fields", j, "ty"))]
                \o [j \in 1..Len(At(c.fdef, p).fields) |-> ExpF(Fld(p, "fields", j, "ex"))])

arm_Pack(c, p) ==
    Push(c, types(c.fdef, p, "tys")
                \o Concat([j \in 1..Len(At(c.fdef, p).fields) |->
                              <<TypeF(Fld(p, "fields", j, "ty")),
                                ExpF(Fld(p, "fields", j, "ex"))>>]))

arm_ExpList(c, p) ==
    LET ex == At(c.fdef, p)
        Item(j) ==
            IF ex.items[j].kind = "Single"
            THEN <<TypeF(Fld(p, "items", j, "ty")), ExpF(Fld(p, "items", j, "ex"))>>
            ELSE types(c.fdef, Append(p, <<"items", j>>), "tys")
                     \o <<ExpF(Fld(p, "items", j, "ex"))>>
    IN Push(c, Concat([j \in 1..Len(ex.items) |-> Item(j)]))

\* faulty variant of the Assign arm: the left-hand side is processed as
\* declarations
arm_Assign_Declaring(c, p) ==
    Push(c, lvalue_list(c.fdef, p, "lhs", TRUE)
                \o types(c.fdef, p, "tys")
                \o <<ExpF(Sub(p, "ex"))>>)

arm_Assign(c, p) ==
    Push(c, lvalue_list(c.fdef, p, "lhs", FALSE)
                \o types(c.fdef, p, "tys")
                \o <<ExpF(Sub(p, "ex"))>>)

\* faulty variant of the Vector, Cast and Annotate arms: the expression is
\* visited before the type
arm_Typed_ExpFirst(c, p) == Push(c, <<ExpF(Sub(p, "ex")), TypeF(Sub(p, "ety"))>>)

\* Vector, Cast, Annotate
arm_Typed(c, p) == Push(c, <<TypeF(Sub(p, "ety")), ExpF(Sub(p, "ex"))>>)

\* Loop, Builtin, Return, Abort, Dereference, UnaryExp, Borrow, TempBorrow
arm_Unary(c, p) == Push(c, <<ExpF(Sub(p, "ex"))>>)

\* fn exp_unannotated: the match on the variant of the expression at p
exp_unannotated(c, p) ==
    LET k == At(c.fdef, p).kind
    IN CASE k = "ModuleCall" -> arm_ModuleCall(c, p)
         [] k \in {"Use", "Copy", "Move", "BorrowLocal"} -> arm_VarRef(c, p)
         [] k = "VarCall" -> arm_VarCall(c, p)
         [] k = "Lambda" -> arm_Lambda(c, p)
         [] k = "IfElse" -> arm_IfElse(c, p)
         [] k = "While" -> arm_While(c, p)
         [] k = "Block" -> Push(c, <<SeqF(p, 1, 0)>>)
         [] k = "Mutate" -> arm_Mutate(c, p)
         [] k = "BinopExp" -> arm_BinopExp(c, p)
         [] k = "Pack" -> arm_Pack(c, p)
         [] k = "ExpList" -> arm_ExpList(c, p)
         [] k = "Assign" -> arm_Assign(c, p)
         [] k \in {"Vector", "Cast", "Annotate"} -> arm_Typed(c, p)
         [] k \in {"Loop", "Builtin", "Return", "Abort", "Dereference",
                   "UnaryExp", "Borrow", "TempBorrow"} -> arm_Unary(c, p)
         [] k \in {"Unit", "Value", "Constant", "Break", "Continue",
                   "Spec", "UnresolvedError"} -> c

\* faulty variant of the end of the Lambda arm: exit_scope forgotten
lambda_exit_Missing(c) == Pop(c)

\* the rest of the Lambda arm of exp_unannotated, after the body
lambda_exit(c) == ExitScope(Pop(c), Top(c).path)

\* faulty variant of exp: the hook and the variant first, the inferred type last
exp_HookBeforeType(c, r) ==
    LET fr == Top(c)
        p == fr.path
    IN IF fr.pc = "start"
       THEN Push(Pop(c), <<Frame("exp", p, "hook"), TypeF(Append(p, <<"ty", 0>>))>>)
       ELSE LET d == Emit(Pop(c), "exp", p, "", r)
            IN IF r = "Stop" THEN d ELSE exp_unannotated(d, p)

\* faulty variant of exp: the answer of the hook is not looked at
exp_IgnoreStop(c, r) ==
    LET fr == Top(c)
        p == fr.path
    IN IF fr.pc = "start"
       THEN Push(Pop(c), <<TypeF(Append(p, <<"ty", 0>>)), Frame("exp", p, "hook")>>)
       ELSE exp_unannotated(Emit(Pop(c), "exp", p, "", r), p)

\* faulty variant of exp: after the hook has answered Descend the inferred
\* type is visited once more
exp_TypeAgain(c, r) ==
    LET fr == Top(c)
        p == fr.path
    IN IF fr.pc = "start"
       THEN Push(Pop(c), <<TypeF(Append(p, <<"ty", 0>>)), Frame("exp", p, "hook")>>)
       ELSE LET d == Emit(Pop(c), "exp", p, "", r)
            IN IF r = "Stop" THEN d
               ELSE Push(exp_unannotated(d, p), <<TypeF(Append(p, <<"ty", 0>>))>>)

\* faulty variant of exp: Stop returns from the whole traversal
exp_StopUnwinds(c, r) ==
    LET fr == Top(c)
        p == fr.path
    IN IF fr.pc = "start"
       THEN Push(Pop(c), <<TypeF(Append(p, <<"ty", 0>>)), Frame("exp", p, "hook")>>)
       ELSE LET d == Emit(Pop(c), "exp", p, "", r)
            IN IF r = "Stop" THEN [d EXCEPT !.stack = <<>>] ELSE exp_unannotated(d, p)

\* fn exp: the inferred type first, then the hook, then the variant
exp(c, r) ==
    LET fr == Top(c)
        p == fr.path
    IN IF fr.pc = "start"
       THEN Push(Pop(c), <<TypeF(Append(p, <<"ty", 0>>)), Frame("exp", p, "hook")>>)
       ELSE LET d == Emit(Pop(c), "exp", p, "", r)
            IN IF r = "Stop" THEN d ELSE exp_unannotated(d, p)

\* faulty variants of the Bind arm: the initializer visited before the
\* pattern, and the explicit types visited before the pattern
BindCalls_InitFirst(fdef, sp) ==
    <<ExpF(Append(sp, <<"e", 0>>))>>
        \o lvalue_list(fdef, sp, "decls", TRUE)
        \o types(fdef, sp, "tys")
BindCalls_TypesFirst(fdef, sp) ==
    types(fdef, sp, "tys")
        \o lvalue_list(fdef, sp, "decls", TRUE)
        \o <<ExpF(Append(sp, <<"e", 0>>))>>

\* the calls of the Bind arm of sequence, after its enter_scope
BindCalls(fdef, sp) ==
    lvalue_list(fdef, sp, "decls", TRUE)
        \o types(fdef, sp, "tys")
        \o <<ExpF(Append(sp, <<"e", 0>>))>>

\* faulty variant of sequence: the scopes opened so far are closed before a
\* plain statement is visited
sequence_CloseAtPlain(c) ==
    LET fr == Top(c)
        p == fr.path
        seq == At(c.fdef, p).seq
        sp == Append(p, <<"seq", fr.i>>)
        next(n) == <<SeqF(p, fr.i + 1, n)>>
    IN IF fr.i <= Len(seq)
       THEN LET item == seq[fr.i]
            IN CASE item.kind = "Bind" ->
                      Push(EnterScope(Pop(c), sp), BindCalls(c.fdef, sp) \o next(fr.n + 1))
                 [] item.kind = "Declare" ->
                      Push(EnterScope(Pop(c), sp),
                           lvalue_list(c.fdef, sp, "decls", TRUE) \o next(fr.n + 1))
                 [] item.kind = "Seq" ->
                      Push(ExitScopes(Pop(c), p, fr.n),
                           <<ExpF(Append(sp, <<"e", 0>>))>> \o next(0))
       ELSE ExitScopes(Pop(c), p, fr.n)

\* fn sequence: one iteration of the for loop, or the closing while loop
sequence(c) ==
    LET fr == Top(c)
        p == fr.path
        seq == At(c.fdef, p).seq
        sp == Append(p, <<"seq", fr.i>>)
        next(n) == <<SeqF(p, fr.i + 1, n)>>
    IN IF fr.i <= Len(seq)
       THEN LET item == seq[fr.i]
            IN CASE item.kind = "Bind" ->
                      Push(EnterScope(Pop(c), sp), BindCalls(c.fdef, sp) \o next(fr.n + 1))
                 [] item.kind = "Declare" ->
                      Push(EnterScope(Pop(c), sp),
                           lvalue_list(c.fdef, sp, "decls", TRUE) \o next(fr.n + 1))
                 [] item.kind = "Seq" ->
                      Push(Pop(c), <<ExpF(Append(sp, <<"e", 0>>))>> \o next(fr.n))
       ELSE ExitScopes(Pop(c), p, fr.n)

\* faulty variant of lvalue: the nested targets of a destructuring target are
\* processed as uses
lvalue_FlagLost(c) ==
    LET fr == Top(c)
        p == fr.path
        lv == At(c.fdef, p)
        fld(j, g) == Append(Append(p, <<"fields", j>>), <<g, 0>>)
    IN IF fr.pc = "start"
       THEN CASE lv.kind = "Var" ->
                   Push(Pop(c), <<TypeF(Append(p, <<"ty", 0>>)),
                                  [fr EXCEPT !.pc = "notify"]>>)
              [] lv.kind \in {"Unpack", "BorrowUnpack"} ->
                   Push(Pop(c),
                        types(c.fdef, p, "tys")
                            \o Concat([j \in 1..Len(lv.fields) |->
                                   <<TypeF(fld(j, "ty")), LvF(fld(j, "lv"), FALSE)>>]))
              [] lv.kind = "Ignore" -> Pop(c)
       ELSE IF fr.declared
            THEN Emit(Pop(c), "var_decl", p, lv.var, "")
            ELSE Emit(Pop(c), "var_use", p, lv.var, "")

\* fn lvalue
lvalue(c) ==
    LET fr == Top(c)
        p == fr.path
        lv == At(c.fdef, p)
        fld(j, g) == Append(Append(p, <<"fields", j>>), <<g, 0>>)
    IN IF fr.pc = "start"
       THEN CASE lv.kind = "Var" ->
                   Push(Pop(c), <<TypeF(Append(p, <<"ty", 0>>)),
                                  [fr EXCEPT !.pc = "notify"]>>)
              [] lv.kind \in {"Unpack", "BorrowUnpack"} ->
                   Push(Pop(c),
                        types(c.fdef, p, "tys")
                            \o Concat([j \in 1..Len(lv.fields) |->
                                   <<TypeF(fld(j, "ty")), LvF(fld(j, "lv"), fr.declared)>>]))
              [] lv.kind = "Ignore" -> Pop(c)
       ELSE IF fr.declared
            THEN Emit(Pop(c), "var_decl", p, lv.var, "")
            ELSE Emit(Pop(c), "var_use", p, lv.var, "")

\* ------------------------------------------------------------------------
\* The functions that are traversed
\* ------------------------------------------------------------------------

\* sample types: atomic leaves, references, applied types (also nullary and nested)
TApp0 == TApply(<<>>)
TApp1 == TApply(<<TParam>>)
TNested == TApply(<<TRef(TApply(<<TVar>>)), TUnit>>)
TRefApp == TRef(TApp1)

\* f(x) and g(x, y): module calls with a single tupled argument expression
CallF == EModuleCall(TUnit, <<>>, <<>>, EUse("x"))
CallG == EModuleCall(TUnit, <<>>, <<>>,
                     EExpList(TUnit, <<ESingle(EUse("x"), TUnit), ESingle(EUse("y"), TUnit)>>))

\* the sequence [Declare x, Bind y = f(x), Seq g(x, y)]
DeclareBindUse ==
    <<SDeclare(<<LVar("x", TUnit)>>),
      SBind(<<LVar("y", TUnit)>>, <<TApp1>>, CallF),
      SSeq(CallG)>>

\* the statements generated sequences are made of
Stmts ==
    { SDeclare(<<LVar("x", TUnit)>>),
      SBind(<<LVar("y", TUnit)>>, <<TParam>>, EUse("x")),
      SSeq(EUse("y")) }

Seqs == UNION {[1..n -> Stmts] : n \in 0..MaxSeqLen}

\* parameter lists
Params == {Param("x", TApp1), Param("y", TUnit)}
ParamLists == UNION {[1..n -> Params] : n \in 0..MaxParams}

\* nested scopes: blocks with Bind / Declare and lambdas (also shadowing x)
RECURSIVE Nest(_)
Nest(d) ==
    IF d = 0 THEN {EUse("x")}
    ELSE UNION { { EBlock(TUnit, <<SBind(<<LVar("y", TUnit)>>, <<TNone>>, e), SSeq(EUse("y"))>>),
                   EBlock(TUnit, <<SDeclare(<<LVar("x", TUnit)>>), SSeq(e)>>),
                   ELambda(TUnit, <<LVar("x", TUnit)>>, e),
                   e }
                 : e \in Nest(d - 1) }

\* one expression of every variant of UnannotatedExp_
VariantExps ==
    { EModuleCall(TApp0, <<TParam>>, <<TRefApp>>, EUnit),
      EVarRef("Copy", TUnit, "x"), EVarRef("Move", TUnit, "x"),
      EVarRef("BorrowLocal", TRef(TUnit), "x"),
      EVarCall(TUnit, "x", EUse("y")),
      ELambda(TUnit, <<LVar("x", TApp1), LIgnore>>, EUse("x")),
      EIfElse(TUnit, ELeaf("Value", TApp0), EUse("x"), ELeaf("Break", TUnit)),
      EWhile(TUnit, ELeaf("Value", TApp0), ELeaf("Continue", TUnit)),
      EMutate(TUnit, EUse("x"), EUse("y")),
      EBinopExp(TApp0, EUse("x"), TApp1, EUse("y")),
      EPack(TApp1, <<TParam>>, <<EField(TApp0, EUse("x")), EField(TVar, EUse("y"))>>),
      EExpList(TUnit, <<ESingle(EUse("x"), TApp0), ESplat(EUse("y"), <<TUnit, TParam>>)>>),
      EAssign(TUnit,
              <<LVar("x", TApp0),
                LUnpack(<<TParam>>, <<LField(TUnit, LVar("y", TUnit)), LField(TVar, LIgnore)>>)>>,
              <<TApp0, TNone>>, EUse("y")),
      ETyped("Vector", TApp1, TParam, EUnit),
      ETyped("Cast", TApp0, TApp0, EUse("x")),
      ETyped("Annotate", TUnit, TRefApp, EUse("x")),
      EUnary("Loop", TUnit, ELeaf("Break", TUnit)),
      EUnary("Builtin", TUnit, EUse("x")),
      EUnary("Return", TAnything, EUse("x")),
      EUnary("Abort", TAnything, ELeaf("Value", TApp0)),
      EUnary("Dereference", TUnit, EUse("x")),
      EUnary("UnaryExp", TApp0, EUse("x")),
      EUnary("Borrow", TRef(TUnit), EUse("x")),
      EUnary("TempBorrow", TRef(TUnit), EUse("x")),
      ELeaf("Constant", TNested), ELeaf("Spec", TUnit),
      ELeaf("UnresolvedError", TUnresolvedError) }

\* a lambda in a block in a lambda, each declaring x
DeepNest ==
    ELambda(TUnit, <<LVar("x", TUnit)>>,
            EBlock(TUnit, <<SBind(<<LVar("y", TUnit)>>, <<TNone>>,
                                  ELambda(TUnit, <<LVar("x", TUnit)>>, EUse("x"))),
                            SSeq(EUse("y"))>>))

\* conditionals on a literal condition, and a call with several type
\* arguments and parameter types
LiteralIfs == {EIfElse(TUnit, EValue(TUnit, v), EUse("x"), EUse("y")) : v \in BOOLEAN}
CallH == EModuleCall(TUnit, <<TParam, TApp0>>, <<TVar, TRef(TUnit)>>, EUse("x"))

\* a Declare of a destructuring pattern nested two deep
DeclareNested ==
    SDeclare(<<LUnpack(<<TParam>>,
                       <<LField(TApp0, LBorrowUnpack(<<>>, <<LField(TUnit, LVar("x", TUnit)),
                                                             LField(TVar, LIgnore)>>)),
                         LField(TUnit, LVar("y", TApp0))>>)>>)

\* statements that destructure: Bind with several targets and explicit types
BindUnpack ==
    SBind(<<LBorrowUnpack(<<>>, <<LField(TApp0, LVar("x", TUnit)),
                                  LField(TUnit, LVar("y", TUnit))>>),
            LVar("a", TUnit)>>,
          <<TNone, TApp1>>, EUse("a"))

\* a function that annotates its parameter, of an applied type, with a
\* reference type
AnnotateParam ==
    Fun(<<Param("x", TApp1)>>,
        Defined(<<SSeq(ETyped("Annotate", TUnit, TRefApp, EUse("x")))>>))

Programs ==
    {Fun(ps, Native) : ps \in ParamLists}
    \cup {Fun(ps, Defined(<<SSeq(EUse("x"))>>)) : ps \in ParamLists}
    \cup {Fun(<<>>, Defined(s)) : s \in Seqs}
    \cup {Fun(<<Param("x", TUnit)>>, Defined(<<SSeq(EUse("x")), SSeq(e)>>)) :
              e \in Nest(MaxNest)}
    \cup {Fun(<<>>, Defined(<<SSeq(e)>>)) : e \in VariantExps \cup LiteralIfs}
    \cup {Fun(<<>>, Defined(<<BindUnpack, SSeq(EUse("x"))>>)),
          Fun(<<>>, Defined(DeclareBindUse)),
          Fun(<<>>, Defined(<<DeclareNested, SSeq(EUse("x"))>>)),
          Fun(<<>>, Defined(<<SSeq(CallH)>>)),
          AnnotateParam,
          Fun(<<Param("x", TUnit)>>, Defined(<<SSeq(EUse("x")), SSeq(DeepNest)>>))}

\* ------------------------------------------------------------------------
\* The lock file (lock_file/schema.rs)
\* ------------------------------------------------------------------------

\* the lock file version written by this version of the compiler
VERSION == 0

\* a Dependency entry of the lock file, by its name
DepNames == {"a", "b"}
Dependency(n) == [name |-> n]
DepLists == UNION {[1..n -> {Dependency(d) : d \in DepNames}] : n \in 0..MaxDeps}

\* what deserializing the text as Schema<Header> comes to: the version of
\* the [move] table, or a failure
Header(v) == [parsed |-> TRUE, version |-> v]
BadHeader == [parsed |-> FALSE, version |-> 0]
Headers == {BadHeader} \cup {Header(v) : v \in 0..MaxVersion}

\* what deserializing the text as Schema<Dependencies> comes to: the
\* `dependency` array of the [move] table, None when the key is absent, or a
\* failure
Some(l) == [parsed |-> TRUE, some |-> TRUE, list |-> l]
None == [parsed |-> TRUE, some |-> FALSE, list |-> <<>>]
BadDependencies == [parsed |-> FALSE, some |-> FALSE, list |-> <<>>]
DependencyTables == {None, BadDependencies} \cup {Some(l) : l \in DepLists}

\* a lock file, by what reading and deserializing it comes to: whether
\* read_to_string succeeds, the header and the dependencies
LockFile(readable, header, dependency) ==
    [kind |-> "File", readable |-> readable, header |-> header, dependency |-> dependency]
LockFiles ==
    {LockFile(r, h, d) : r \in BOOLEAN, h \in Headers, d \in DependencyTables}

\* Result<Vec<Dependency>>
Ok(v) == [kind |-> "Ok", value |-> v]
Err(context) == [kind |-> "Err", context |-> context]

\* Option<Vec<Dependency>>::unwrap_or_default
unwrap_or_default(d) == IF d.some THEN d.list ELSE <<>>

\* faulty variant of read: the version of the header is not compared
read_AnyVersion(file) ==
    IF ~file.readable THEN Err("Reading lock file")
    ELSE IF ~file.header.parsed THEN Err("Deserializing lock header")
    ELSE IF ~file.dependency.parsed THEN Err("Deserializing dependencies")
    ELSE Ok(unwrap_or_default(file.dependency))

\* Dependencies::read
read(file) ==
    IF ~file.readable THEN Err("Reading lock file")
    ELSE IF ~file.header.parsed THEN Err("Deserializing lock header")
    ELSE IF file.header.version > VERSION THEN Err("Lock file format is too new")
    ELSE IF ~file.dependency.parsed THEN Err("Deserializing dependencies")
    ELSE Ok(unwrap_or_default(file.dependency))

\* ------------------------------------------------------------------------
\* Intrinsic declarations (move-model/src/intrinsics.rs)
\* ------------------------------------------------------------------------

\* BTreeMap: insert, remove and the keys and values held
Insert(m, k, v) == [x \in DOMAIN m \cup {k} |-> IF x = k THEN v ELSE m[x]]
Remove(m, k) == [x \in DOMAIN m \ {k} |-> m[x]]
Values(m) == {m[k] : k \in DOMAIN m}
EmptyMap == <<>>

\* the module being built and another module
module_name == "M"
OtherModule == "N"

\* QualifiedSymbol and QualifiedId
QualifiedSymbol(m, sym) == [module_name |-> m, symbol |-> sym]
Qualified(mid, id) == [module_id |-> mid, id |-> id]

\* the functions the declaration is asked to map, move functions (true) and
\* spec functions (false), in the order of the BTreeMap's keys
AssocFun(name, is_move_fun) == [name |-> name, is_move_fun |-> is_move_fun]
associated_funs ==
    <<AssocFun("map_len", TRUE), AssocFun("map_new", TRUE),
      AssocFun("map_spec_get", FALSE), AssocFun("map_spec_len", FALSE)>>
AssocNames == {associated_funs[i].name : i \in 1..Len(associated_funs)}

\* PropertyValue, and the None of a key the bag does not hold
PropertyValue(kind, m, sym) == [kind |-> kind, module_name |-> m, symbol |-> sym]
NoProperty == PropertyValue("None", "", "")
Targets == {"t1", "t2", "t3", "t4", "t5"}
PropertyValues ==
    {PropertyValue("Value", "", "")}
        \cup {PropertyValue("Symbol", "", t) : t \in Targets}
        \cup {PropertyValue("QualifiedSymbol", m, "t1") : m \in {module_name, OtherModule}}
PropertyBags == UNION {[D -> PropertyValues] : D \in SUBSET AssocNames}

\* builder.parent.fun_table: t1 and t2 are move functions of this module,
\* t1 is one of the other module as well
fun_table ==
    [q \in {QualifiedSymbol(module_name, "t1"), QualifiedSymbol(module_name, "t2"),
            QualifiedSymbol(OtherModule, "t1")} |->
        [module_id |-> q.module_name, fun_id |-> q.symbol]]

\* Operation of a spec function entry
Function(mid, fid) == [kind |-> "Function", mid |-> mid, fid |-> fid]
OtherOperation == [kind |-> "Other", mid |-> "", fid |-> 0]
SpecFunEntry(oper) == [oper |-> oper]

\* builder.parent.spec_fun_table: t1 and t2 name one spec function each, t3
\* names two, t4 names an entry whose operation is not a function, t5 none;
\* t1 is a spec function of the other module as well
spec_fun_table ==
    [q \in {QualifiedSymbol(module_name, t) : t \in {"t1", "t2", "t3", "t4"}}
            \cup {QualifiedSymbol(OtherModule, "t1")} |->
        CASE q.module_name = OtherModule -> <<SpecFunEntry(Function(OtherModule, 1))>>
          [] q.symbol = "t1" -> <<SpecFunEntry(Function(module_name, 1))>>
          [] q.symbol = "t2" -> <<SpecFunEntry(Function(module_name, 2))>>
          [] q.symbol = "t3" -> <<SpecFunEntry(Function(module_name, 3)),
                                  SpecFunEntry(Function(module_name, 4))>>
          [] OTHER -> <<SpecFunEntry(OtherOperation)>>]

\* IntrinsicDecl
IntrinsicDecl(move_type, i2m, m2i, i2s, s2i) ==
    [move_type |-> move_type,
     intrinsic_to_move_fun |-> i2m, move_fun_to_intrinsic |-> m2i,
     intrinsic_to_spec_fun |-> i2s, spec_fun_to_intrinsic |-> s2i]

\* the declaration process_intrinsic_declaration prepares for a struct
NewDecl(move_type) == IntrinsicDecl(move_type, EmptyMap, EmptyMap, EmptyMap, EmptyMap)

\* builder.parent.error
Error(st, msg) == [st EXCEPT !.errors = Append(@, msg)]

\* faulty variant of populate_intrinsic_decl: the module of a qualified
\* symbol is not compared with the module being built
populate_intrinsic_decl_AnyModule(st, i) ==
    LET name == associated_funs[i].name
        is_move_fun == associated_funs[i].is_move_fun
        key_sym == name
        val == IF key_sym \in DOMAIN st.props THEN st.props[key_sym] ELSE NoProperty
        s1 == [st EXCEPT !.props = Remove(@, key_sym)]
    IN IF val.kind = "None" THEN s1
       ELSE IF val.kind = "Value" THEN Error(s1, "invalid intrinsic function mapping")
       ELSE
         LET qualified_sym == QualifiedSymbol(module_name, val.symbol)
         IN IF is_move_fun
            THEN IF qualified_sym \notin DOMAIN fun_table
                 THEN Error(s1, "unable to find move function")
                 ELSE LET entry == fun_table[qualified_sym]
                          qid == Qualified(entry.module_id, entry.fun_id)
                          s2 == [s1 EXCEPT
                                   !.decl.intrinsic_to_move_fun = Insert(@, key_sym, qid),
                                   !.decl.move_fun_to_intrinsic = Insert(@, qid, key_sym)]
                      IN IF qid \in DOMAIN s1.decl.move_fun_to_intrinsic
                         THEN Error(s2, "duplicated intrinsic mapping for move function")
                         ELSE s2
            ELSE IF qualified_sym \notin DOMAIN spec_fun_table
                 THEN Error(s1, "unable to find spec function")
                 ELSE LET entries == spec_fun_table[qualified_sym]
                      IN IF Len(entries) # 1
                         THEN Error(s1, "unable to find a unique spec function")
                         ELSE LET entry == entries[1]
                                  qid == Qualified(entry.oper.mid, entry.oper.fid)
                                  s2 == [s1 EXCEPT
                                           !.decl.intrinsic_to_spec_fun = Insert(@, key_sym, qid),
                                           !.decl.spec_fun_to_intrinsic = Insert(@, qid, key_sym)]
                              IN IF entry.oper.kind # "Function" THEN s1
                                 ELSE IF qid \in DOMAIN s1.decl.spec_fun_to_intrinsic
                                 THEN Error(s2, "duplicated intrinsic mapping for spec function")
                                 ELSE s2

\* fn populate_intrinsic_decl, the i-th turn of its loop over associated_funs
\* on st, the property bag, the declaration and the errors reported so far
populate_intrinsic_decl(st, i) ==
    LET name == associated_funs[i].name
        is_move_fun == associated_funs[i].is_move_fun
        key_sym == name
        val == IF key_sym \in DOMAIN st.props THEN st.props[key_sym] ELSE NoProperty
        s1 == [st EXCEPT !.props = Remove(@, key_sym)]
    IN IF val.kind = "None" THEN s1
       ELSE IF val.kind = "Value" THEN Error(s1, "invalid intrinsic function mapping")
       ELSE IF val.kind = "QualifiedSymbol" /\ val.module_name # module_name
       THEN Error(s1, "mapping refers to another module")
       ELSE
         LET qualified_sym == QualifiedSymbol(module_name, val.symbol)
         IN IF is_move_fun
            THEN IF qualified_sym \notin DOMAIN fun_table
                 THEN Error(s1, "unable to find move function")
                 ELSE LET entry == fun_table[qualified_sym]
                          qid == Qualified(entry.module_id, entry.fun_id)
                          s2 == [s1 EXCEPT
                                   !.decl.intrinsic_to_move_fun = Insert(@, key_sym, qid),
                                   !.decl.move_fun_to_intrinsic = Insert(@, qid, key_sym)]
                      IN IF qid \in DOMAIN s1.decl.move_fun_to_intrinsic
                         THEN Error(s2, "duplicated intrinsic mapping for move function")
                         ELSE s2
            ELSE IF qualified_sym \notin DOMAIN spec_fun_table
                 THEN Error(s1, "unable to find spec function")
                 ELSE LET entries == spec_fun_table[qualified_sym]
                      IN IF Len(entries) # 1
                         THEN Error(s1, "unable to find a unique spec function")
                         ELSE LET entry == entries[1]
                                  qid == Qualified(entry.oper.mid, entry.oper.fid)
                                  s2 == [s1 EXCEPT
                                           !.decl.intrinsic_to_spec_fun = Insert(@, key_sym, qid),
                                           !.decl.spec_fun_to_intrinsic = Insert(@, qid, key_sym)]
                              IN IF entry.oper.kind # "Function" THEN s1
                                 ELSE IF qid \in DOMAIN s1.decl.spec_fun_to_intrinsic
                                 THEN Error(s2, "duplicated intrinsic mapping for spec function")
                                 ELSE s2

\* the whole loop of populate_intrinsic_decl, from its i-th turn on
RECURSIVE populate_from(_, _)
populate_from(st, i) ==
    IF i > Len(associated_funs) THEN st
    ELSE populate_from(populate_intrinsic_decl(st, i), i + 1)

\* IntrinsicsAnnotation, and its Default
IntrinsicsAnnotation(decls, structs, move_funs, spec_funs) ==
    [decls |-> decls, intrinsic_structs |-> structs,
     intrinsic_move_funs |-> move_funs, intrinsic_spec_funs |-> spec_funs]
DefaultAnnotation == IntrinsicsAnnotation(EmptyMap, EmptyMap, EmptyMap, EmptyMap)

\* a map with id inserted under each of the keys
InsertAll(m, keys, id) == [x \in DOMAIN m \cup keys |-> IF x \in keys THEN id ELSE m[x]]

\* faulty variant of add_decl: the id is the number of intrinsic structs
add_decl_IdByStruct(self, d) ==
    LET id == Cardinality(DOMAIN self.intrinsic_structs)
    IN IntrinsicsAnnotation(
           Insert(self.decls, id, d),
           Insert(self.intrinsic_structs, d.move_type, id),
           InsertAll(self.intrinsic_move_funs, DOMAIN d.move_fun_to_intrinsic, id),
           InsertAll(self.intrinsic_spec_funs, DOMAIN d.spec_fun_to_intrinsic, id))

\* IntrinsicsAnnotation::add_decl
add_decl(self, d) ==
    LET id == Cardinality(DOMAIN self.decls)
    IN IntrinsicsAnnotation(
           Insert(self.decls, id, d),
           Insert(self.intrinsic_structs, d.move_type, id),
           InsertAll(self.intrinsic_move_funs, DOMAIN d.move_fun_to_intrinsic, id),
           InsertAll(self.intrinsic_spec_funs, DOMAIN d.spec_fun_to_intrinsic, id))

\* the structs that carry an intrinsic pragma
Structs == {Qualified(module_name, "S1"), Qualified(module_name, "S2")}

\* property bags of struct spec blocks: no mapping; one move function; two
\* names for one move function; a move function and two spec functions
SpecBlocks ==
    {EmptyMap,
     [k \in {"map_len"} |-> PropertyValue("Symbol", "", "t1")],
     [k \in {"map_len", "map_new"} |-> PropertyValue("Symbol", "", "t1")],
     [k \in {"map_new", "map_spec_get", "map_spec_len"} |->
         PropertyValue("Symbol", "", IF k = "map_spec_len" THEN "t1" ELSE "t2")]}

\* the declarations process_intrinsic_declaration makes of them
Decls ==
    {populate_from([props |-> b, decl |-> NewDecl(t), errors |-> <<>>], 1).decl :
        b \in SpecBlocks, t \in Structs}

\* ------------------------------------------------------------------------
\* The state machine
\* ------------------------------------------------------------------------

\* fdef, stack, trace, scopes, stops: the configuration of the traversal
\* that is running; orig: the function as it was before the first traversal;
\* run: the number of the traversal; first: the trace of the traversal before;
\* visitor: the Visitor in use, one with hooks of its own ("any") or one that
\* overrides no hook ("default"); rewritten: the rewrites the exp hook has
\* made in this traversal (where, at which callback, and what the expression
\* was); lock, result: the lock file handed to
\* Dependencies::read and what read returned; props, decl, errors: the
\* property bag, the declaration and the errors reported of a call of
\* populate_intrinsic_decl, cursor: the turn of its loop, given: the property
\* bag as it was handed over; annotation: the IntrinsicsAnnotation, added:
\* the declarations handed to its add_decl, in call order
VARIABLES fdef, stack, trace, scopes, stops, orig, run, first, visitor, rewritten,
          lock, result, props, decl, errors, cursor, given, annotation, added

intrinsics == <<props, decl, errors, cursor, given, annotation, added>>

vars == <<fdef, stack, trace, scopes, stops, orig, run, first, visitor, rewritten,
          lock, result, intrinsics>>

Cfg == Config(fdef, stack, trace, scopes, stops)

Set(c) ==
    /\ fdef' = c.fdef
    /\ stack' = c.stack
    /\ trace' = c.trace
    /\ scopes' = c.scopes
    /\ stops' = c.stops
    /\ UNCHANGED <<orig, run, first, visitor, rewritten, lock, result, intrinsics>>

\* Dispatcher::new followed by the call of function on fdef
StartFrame == Frame("function", <<>>, "start")

\* no lock file is involved in a traversal
NoLock == [kind |-> "NoLock"]
NotRead == [kind |-> "NotRead"]

\* no intrinsic declaration is involved either
NoDecl == [kind |-> "NoDecl"]
NoIntrinsics ==
    /\ props = EmptyMap
    /\ decl = NoDecl
    /\ errors = <<>>
    /\ cursor = 0
    /\ given = EmptyMap
    /\ annotation = DefaultAnnotation
    /\ added = <<>>

Init ==
    /\ fdef \in Programs
    /\ stack = <<StartFrame>>
    /\ trace = <<>>
    /\ scopes = <<>>
    /\ stops = 0
    /\ orig = fdef
    /\ run = 1
    /\ first = <<>>
    /\ visitor = "any"
    /\ rewritten = <<>>
    /\ lock = NoLock
    /\ result = NotRead
    /\ NoIntrinsics

\* the frame on top calls a hook that returns a VisitorContinuation
CallsHook(c) ==
    \/ Top(c).fn = "type_" /\ Top(c).pc = "start"
    \/ Top(c).fn = "exp" /\ Top(c).pc = "hook"

\* what the Visitor may answer
Answers(c) ==
    IF CallsHook(c) /\ c.stops < MaxStops THEN VisitorContinuation ELSE {"Descend"}

Running(fn) == stack # <<>> /\ Top(Cfg).fn = fn

StepFunction == Running("function") /\ Set(function(Cfg))

\* faulty variant of the default hooks: they answer Stop
DefaultAnswer_Stop == "Stop"

\* what the exp and type_ hooks of the trait answer when they are not
\* overridden; the other hooks have empty bodies
DefaultAnswer == "Descend"

\* a traversal that is repeated is one of a Visitor that overrides no hook
Repeatable(r) == IF visitor = "any" THEN TRUE ELSE r = DefaultAnswer

StepType == Running("type_") /\ \E r \in Answers(Cfg) : Repeatable(r) /\ Set(type_(Cfg, r))

StepExp == Running("exp") /\ \E r \in Answers(Cfg) : Repeatable(r) /\ Set(exp(Cfg, r))

StepLambdaExit == Running("exp_unannotated") /\ Set(lambda_exit(Cfg))

StepSequence == Running("sequence") /\ Set(sequence(Cfg))

StepLValue == Running("lvalue") /\ Set(lvalue(Cfg))

\* function has returned and the caller runs it again on the same fdef, with
\* a Visitor that overrides no hook
Restart ==
    /\ stack = <<>>
    /\ run < MaxRuns
    /\ stops = 0
    /\ run' = run + 1
    /\ first' = trace
    /\ stack' = <<StartFrame>>
    /\ trace' = <<>>
    /\ visitor' = "default"
    /\ rewritten' = <<>>
    /\ UNCHANGED <<fdef, scopes, stops, orig, lock, result, intrinsics>>

\* what an exp hook that rewrites puts in the place of the expression it is
\* handed: a dereference of a variable, a terminal leaf; both of an inferred
\* type that is an applied type
Rewrites == {EUnary("Dereference", TApp1, EUse("r")), ELeaf("Unit", TApp1)}

\* the exp hook is handed `&mut Exp`: it replaces the expression by new and
\* answers Descend; exp goes on with the expression as it is then
StepExpRewrite ==
    /\ Running("exp")
    /\ Top(Cfg).pc = "hook"
    /\ visitor = "any"
    /\ Len(rewritten) < MaxRewrites
    /\ \E new \in Rewrites :
           LET p == Top(Cfg).path
               c == exp([Cfg EXCEPT !.fdef = Replace(fdef, p, new)], "Descend")
           IN /\ fdef' = c.fdef
              /\ stack' = c.stack
              /\ trace' = c.trace
              /\ scopes' = c.scopes
              /\ stops' = c.stops
              /\ rewritten' = Append(rewritten,
                                     [path |-> p, at |-> Len(trace) + 1, old |-> At(fdef, p)])
    /\ UNCHANGED <<orig, run, first, visitor, lock, result, intrinsics>>

\* the functions traversed with a Visitor that rewrites
RewritePrograms ==
    {Fun(<<>>, Defined(<<SSeq(e), SSeq(EUse("x"))>>)) :
        e \in {EIfElse(TUnit, ELeaf("Value", TApp0), EUse("x"), ELeaf("Break", TUnit)),
               ELambda(TUnit, <<LVar("x", TApp1), LIgnore>>, EUse("x")),
               ELeaf("Constant", TNested)}}

\* the functions the caller hands to the same Dispatcher after the first
Followers == {AnnotateParam, Fun(<<>>, Defined(DeclareBindUse))}

\* function has returned and the caller invokes the same Dispatcher, with
\* the same Visitor, on another function
Reinvoke ==
    /\ stack = <<>>
    /\ run < MaxRuns
    /\ visitor = "any"
    /\ \E f \in Followers : fdef' = f /\ orig' = f
    /\ run' = run + 1
    /\ stack' = <<StartFrame>>
    /\ trace' = <<>>
    /\ rewritten' = <<>>
    /\ UNCHANGED <<scopes, stops, first, visitor, lock, result, intrinsics>>

Next ==
    \/ StepFunction
    \/ StepType
    \/ StepExp
    \/ StepLambdaExit
    \/ StepSequence
    \/ StepLValue
    \/ Restart

Spec == Init /\ [][Next]_vars

\* the traversal has returned
Done == stack = <<>>

\* a caller reads the dependencies of a lock file; no traversal is running
InitLock ==
    /\ lock \in LockFiles
    /\ result = NotRead
    /\ fdef = Fun(<<>>, Native)
    /\ stack = <<>>
    /\ trace = <<>>
    /\ scopes = <<>>
    /\ stops = 0
    /\ orig = fdef
    /\ run = MaxRuns
    /\ first = <<>>
    /\ visitor = "any"
    /\ rewritten = <<>>
    /\ NoIntrinsics

\* the call of Dependencies::read on the lock file
ReadLock ==
    /\ lock # NoLock
    /\ result = NotRead
    /\ result' = read(lock)
    /\ UNCHANGED <<fdef, stack, trace, scopes, stops, orig, run, first, visitor,
                   rewritten, lock, intrinsics>>

NextLock == ReadLock
SpecLock == InitLock /\ [][NextLock]_vars

\* no traversal is running and no lock file is read
NoTraversal ==
    /\ fdef = Fun(<<>>, Native)
    /\ stack = <<>>
    /\ trace = <<>>
    /\ scopes = <<>>
    /\ stops = 0
    /\ orig = fdef
    /\ run = MaxRuns
    /\ first = <<>>
    /\ visitor = "any"
    /\ rewritten = <<>>
    /\ lock = NoLock
    /\ result = NotRead

\* process_intrinsic_declaration has prepared the declaration of a struct
\* and calls populate_intrinsic_decl on the properties of its spec block
InitPopulate ==
    /\ NoTraversal
    /\ props \in PropertyBags
    /\ given = props
    /\ decl \in {NewDecl(t) : t \in Structs}
    /\ errors = <<>>
    /\ cursor = 1
    /\ annotation = DefaultAnnotation
    /\ added = <<>>

\* one turn of the loop of populate_intrinsic_decl
StepPopulate ==
    /\ cursor \in 1..Len(associated_funs)
    /\ LET st == populate_intrinsic_decl(
                     [props |-> props, decl |-> decl, errors |-> errors], cursor)
       IN /\ props' = st.props
          /\ decl' = st.decl
          /\ errors' = st.errors
    /\ cursor' = cursor + 1
    /\ UNCHANGED <<fdef, stack, trace, scopes, stops, orig, run, first, visitor,
                   rewritten, lock, result, given, annotation, added>>

NextPopulate == StepPopulate
SpecPopulate == InitPopulate /\ [][NextPopulate]_vars

\* populate_intrinsic_decl has returned
Populated == cursor > Len(associated_funs)

\* the declarations of a model are added to its IntrinsicsAnnotation
InitAnnotation ==
    /\ NoTraversal
    /\ NoIntrinsics

\* a call of add_decl
AddDecl ==
    /\ Len(added) < MaxDecls
    /\ \E d \in Decls :
           /\ annotation' = add_decl(annotation, d)
           /\ added' = Append(added, d)
    /\ UNCHANGED <<fdef, stack, trace, scopes, stops, orig, run, first, visitor,
                   rewritten, lock, result, props, decl, errors, cursor, given>>

NextAnnotation == AddDecl
SpecAnnotation == InitAnnotation /\ [][NextAnnotation]_vars

\* the traversals of a Visitor whose exp hook rewrites
InitRewrite ==
    /\ fdef \in RewritePrograms
    /\ stack = <<StartFrame>>
    /\ trace = <<>>
    /\ scopes = <<>>
    /\ stops = 0
    /\ orig = fdef
    /\ run = 1
    /\ first = <<>>
    /\ visitor = "any"
    /\ rewritten = <<>>
    /\ lock = NoLock
    /\ result = NotRead
    /\ NoIntrinsics
NextRewrite == Next \/ StepExpRewrite
SpecRewrite == InitRewrite /\ [][NextRewrite]_vars

\* the traversals of a caller that uses one Dispatcher for several functions
NextReinvoke == Next \/ Reinvoke
SpecReinvoke == Init /\ [][NextReinvoke]_vars

\* the Dispatcher runs on one thread and every hook returns: a call that can
\* take a step takes it
FairSpec == Spec /\ WF_vars(Next)

\* ------------------------------------------------------------------------
\* Reading the trace
\* ------------------------------------------------------------------------

Idx == 1..Len(trace)
Front(q) == SubSeq(q, 1, Len(q) - 1)
Last(q) == q[Len(q)]

\* the node at path p of the function under traversal
Node(p) == At(fdef, p)

\* the construct an enter_scope belongs to: the sequence for the scope of a
\* Bind or Declare statement, else the Lambda or the function itself
Owner(p) == IF p # <<>> /\ Last(p)[1] = "seq" THEN Front(p) ELSE p

\* the scopes open after the first k events, innermost last, each named by
\* the path of its enter_scope
RECURSIVE OpenAt(_, _)
OpenAt(tr, k) ==
    IF k = 0 THEN <<>>
    ELSE LET o == OpenAt(tr, k - 1)
         IN CASE tr[k].hook = "enter_scope" -> Append(o, tr[k].path)
              [] tr[k].hook = "exit_scope" -> IF o = <<>> THEN o ELSE Front(o)
              [] OTHER -> o

\* number of events of hook h among the first k
RECURSIVE Count(_, _, _)
Count(tr, h, k) ==
    IF k = 0 THEN 0 ELSE Count(tr, h, k - 1) + (IF tr[k].hook = h THEN 1 ELSE 0)

\* every exit_scope among the events finds a scope open, and the innermost
\* open scope is one the construct issuing the exit_scope has opened
Lifo(tr) ==
    \A k \in 1..Len(tr) :
        tr[k].hook = "exit_scope" =>
            LET o == OpenAt(tr, k - 1)
            IN o # <<>> /\ Owner(Last(o)) = tr[k].path

\* C1: the trace of Dispatcher::function has as many exit_scope as
\* enter_scope calls once the traversal has returned, no prefix of it has
\* more exit_scope than enter_scope calls, and every exit_scope closes the
\* innermost scope still open, which is one its own construct opened
C1_ScopesBalanced ==
    /\ \A k \in Idx : Count(trace, "exit_scope", k) <= Count(trace, "enter_scope", k)
    /\ Lifo(trace)
    /\ Done => Count(trace, "exit_scope", Len(trace)) = Count(trace, "enter_scope", Len(trace))

\* a finished traversal that opened scopes three deep, one of them a Lambda's
C1_Witness ==
    /\ Done
    /\ \E k \in Idx :
           /\ Len(OpenAt(trace, k)) >= 3
           /\ \E j \in 2..Len(OpenAt(trace, k)) : Node(OpenAt(trace, k)[j]).kind = "Lambda"

\* the statements of the sequence at p that open a scope
Binders(p) == {i \in 1..Len(Node(p).seq) : Node(p).seq[i].kind \in {"Bind", "Declare"}}
IsSequence(p) == p # <<>> /\ Node(p).kind \in {"Defined", "Block"}
EventsOf(h, p) == {k \in Idx : trace[k].hook = h /\ trace[k].path = p}

\* C2: a sequence issues one enter_scope for each Bind and Declare and none
\* for a plain statement; the scope stays open during every later statement
\* of the sequence; the exit_scope calls of the sequence, as many as it
\* opened, all come after the last callback of its last statement
C2_SequenceScopes ==
    \A k \in Idx :
        LET p == trace[k].path
        IN /\ (trace[k].hook = "enter_scope" /\ p # <<>> /\ Last(p)[1] = "seq") =>
                /\ Last(p)[2] \in Binders(Front(p))
                /\ EventsOf("enter_scope", p) = {k}
                /\ \A j \in Idx :
                       (j > k /\ StrictlyBelow(trace[j].path, Front(p))) =>
                           \E d \in 1..Len(OpenAt(trace, j - 1)) : OpenAt(trace, j - 1)[d] = p
                /\ \A j \in Idx :
                       (StrictlyBelow(trace[j].path, Front(p)) /\ Last(p)[2] < trace[j].path[Len(p)][2])
                           => j > k
                /\ Done => EventsOf("exit_scope", Front(p)) # {}
           /\ (trace[k].hook = "exit_scope" /\ IsSequence(p)) =>
                /\ Cardinality(EventsOf("exit_scope", p)) = Cardinality(Binders(p))
                /\ \A i \in Binders(p) :
                       \E j \in EventsOf("enter_scope", Append(p, <<"seq", i>>)) : j < k
                /\ \A j \in Idx : StrictlyBelow(trace[j].path, p) => j < k

\* the sequence [Declare x, Bind y = f(x), Seq g(x, y)] traversed to the end
C2_Witness ==
    /\ Done
    /\ stops = 0
    /\ fdef.body.kind = "Defined"
    /\ Len(fdef.body.seq) = 3
    /\ fdef.body.seq[1].kind = "Declare"
    /\ fdef.body.seq[2].kind = "Bind"
    /\ fdef.body.seq[3].kind = "Seq"
    /\ Cardinality(EventsOf("exit_scope", <<<<"body", 0>>>>)) = 2

\* ------------------------------------------------------------------------
\* Running the Dispatcher to the end on another function
\* ------------------------------------------------------------------------

\* one step of the method on top of the stack, the hook answering r
Step(c, r) ==
    CASE Top(c).fn = "function" -> function(c)
      [] Top(c).fn = "type_" -> type_(c, r)
      [] Top(c).fn = "exp" -> exp(c, r)
      [] Top(c).fn = "exp_unannotated" -> lambda_exit(c)
      [] Top(c).fn = "sequence" -> sequence(c)
      [] Top(c).fn = "lvalue" -> lvalue(c)

\* Dispatcher::function on f, the exp and type_ hooks giving the answers
\* ans in the order they are asked (Descend once ans is used up)
RECURSIVE Run(_, _)
Run(c, ans) ==
    IF c.stack = <<>> THEN c
    ELSE IF CallsHook(c)
         THEN IF ans = <<>> THEN Run(Step(c, "Descend"), ans)
              ELSE Run(Step(c, Head(ans)), Tail(ans))
         ELSE Run(Step(c, "Descend"), ans)

TraceOf(f, ans) == Run(Config(f, <<StartFrame>>, <<>>, <<>>, 0), ans).trace

\* the answers the hooks have given in tr, in order
AnswersIn(tr) ==
    LET IsAnswer(e) == e.ret # ""
        asked == SelectSeq(tr, IsAnswer)
    IN [k \in 1..Len(asked) |-> asked[k].ret]

\* C3: the type_ hook for the inferred type of an expression node, and every
\* callback for that type's substructure, comes before the exp hook for the
\* node, whether the exp hook answers Stop or Descend
C3_TypeBeforeExp ==
    \A k \in Idx :
        trace[k].hook = "exp" =>
            LET ty == Append(trace[k].path, <<"ty", 0>>)
            IN /\ \E j \in EventsOf("type_", ty) : j < k
               /\ \A j \in Idx : IsPrefix(ty, trace[j].path) => j < k

\* the exp hook has answered Stop for a node whose inferred type is an
\* applied type with type arguments
C3_Witness ==
    \E k \in Idx :
        /\ trace[k].hook = "exp"
        /\ trace[k].ret = "Stop"
        /\ Node(trace[k].path).ty.kind = "Apply"
        /\ \E j \in Idx : StrictlyBelow(trace[j].path, Append(trace[k].path, <<"ty", 0>>))

\* the node N as a terminal leaf of the same inferred type
AsLeaf(node) == ELeaf("Unit", node.ty)

\* C4: once the exp hook has answered Stop for node N no callback fires for
\* N's substructure, and the finished trace is the trace of the function
\* with N replaced by a terminal leaf (under the same answers, the hook
\* answering Descend for the leaf)
C4_StopPrunesOnlyDescendants ==
    \A k \in Idx :
        (trace[k].hook = "exp" /\ trace[k].ret = "Stop") =>
            LET p == trace[k].path
                twin == TraceOf(Replace(fdef, p, AsLeaf(Node(p))),
                                AnswersIn([trace EXCEPT ![k].ret = "Descend"]))
            IN /\ \A j \in Idx : j > k => ~IsPrefix(p, trace[j].path)
               /\ Done => twin = [trace EXCEPT ![k].ret = "Descend"]

\* Stop was answered for a node that has sub-expressions and later siblings,
\* and the traversal has finished
C4_Witness ==
    /\ Done
    /\ \E k \in Idx :
           /\ trace[k].hook = "exp"
           /\ trace[k].ret = "Stop"
           /\ Node(trace[k].path).kind \in {"ModuleCall", "Lambda", "Block"}
           /\ \E j \in Idx : j > k /\ trace[j].hook = "var_use"

\* the infer_abilities calls are well placed: only for an applied type whose
\* type_ hook answered Descend, once, after everything below the node
InferWellPlaced ==
    \A k \in Idx :
        trace[k].hook = "infer_abilities" =>
            LET p == trace[k].path
            IN /\ Node(p).kind = "Apply"
               /\ EventsOf("infer_abilities", p) = {k}
               /\ \E j \in EventsOf("type_", p) : j < k /\ trace[j].ret = "Descend"
               /\ \A j \in Idx : StrictlyBelow(trace[j].path, p) => j < k

\* C5 as claimed: whatever the Visitor answers, every applied type node
\* handed to Dispatcher::type_ gets infer_abilities exactly once, after its
\* type arguments, and no atomic leaf gets it
C5_Original ==
    /\ InferWellPlaced
    /\ Done =>
        \A k \in Idx :
            (trace[k].hook = "type_" /\ Node(trace[k].path).kind = "Apply") =>
                Cardinality(EventsOf("infer_abilities", trace[k].path)) = 1

\* C5 as amended: every applied type node handed to Dispatcher::type_ whose
\* type_ hook answers Descend gets infer_abilities exactly once, after all
\* callbacks for its type arguments; a node whose hook answers Stop gets
\* none; no atomic leaf (and no reference) gets it
C5_InferOncePerDescendedApply ==
    /\ InferWellPlaced
    /\ \A k \in Idx :
           (trace[k].hook = "type_" /\ trace[k].ret = "Stop") =>
               EventsOf("infer_abilities", trace[k].path) = {}
    /\ Done =>
        \A k \in Idx :
            (trace[k].hook = "type_" /\ trace[k].ret = "Descend"
                 /\ Node(trace[k].path).kind = "Apply") =>
                Cardinality(EventsOf("infer_abilities", trace[k].path)) = 1

\* a nested applied type fully visited: infer_abilities for an applied type
\* that has an applied type below it
C5_Witness ==
    /\ Done
    /\ \E k \in Idx :
           /\ trace[k].hook = "infer_abilities"
           /\ \E j \in Idx :
                  /\ trace[j].hook = "infer_abilities"
                  /\ StrictlyBelow(trace[j].path, trace[k].path)
    /\ \E k \in Idx : trace[k].hook = "type_" /\ Node(trace[k].path).kind \in AtomicKinds

\* C6: on Stop from the type_ hook nothing below the node is visited and
\* infer_abilities is not called for it; on Descend a reference goes on with
\* its referent and nothing else, an applied type with its type arguments
\* in order and then infer_abilities, once
C6_TypeDispatch ==
    \A k \in Idx :
        trace[k].hook = "type_" =>
            LET p == trace[k].path
                ty == Node(p)
                arg(i) == Append(p, <<"tys", i>>)
                ref == Append(p, <<"ty", 0>>)
            IN /\ trace[k].ret = "Stop" =>
                    \A j \in Idx : j # k => ~IsPrefix(p, trace[j].path)
               /\ (trace[k].ret = "Descend" /\ ty.kind = "Ref") =>
                    /\ (Done \/ Len(trace) > k) =>
                           /\ k + 1 \in Idx
                           /\ trace[k + 1].hook = "type_"
                           /\ trace[k + 1].path = ref
                    /\ \A j \in Idx : (j # k /\ IsPrefix(p, trace[j].path)) =>
                                          IsPrefix(ref, trace[j].path)
               /\ (trace[k].ret = "Descend" /\ ty.kind = "Apply" /\ Done) =>
                    /\ \A i \in 1..Len(ty.tys) :
                           /\ Cardinality(EventsOf("type_", arg(i))) = 1
                           /\ \A a \in Idx : \A b \in Idx :
                                  (i < Len(ty.tys) /\ IsPrefix(arg(i), trace[a].path)
                                       /\ IsPrefix(arg(i + 1), trace[b].path)) => a < b
                    /\ \A j \in Idx : StrictlyBelow(trace[j].path, p) =>
                           \E i \in 1..Len(ty.tys) : IsPrefix(arg(i), trace[j].path)
                    /\ \E j \in EventsOf("infer_abilities", p) :
                           /\ EventsOf("infer_abilities", p) = {j}
                           /\ j > k
                           /\ \A i \in Idx : StrictlyBelow(trace[i].path, p) => i < j

\* Stop for an applied type that has type arguments, below a reference and
\* an applied type with two arguments for which the hook answered Descend
C6_Witness ==
    /\ Done
    /\ \E k \in Idx :
           /\ trace[k].hook = "type_" /\ trace[k].ret = "Stop"
           /\ Node(trace[k].path).kind = "Apply"
           /\ Len(Node(trace[k].path).tys) > 0
    /\ \E k \in Idx :
           /\ trace[k].hook = "type_" /\ trace[k].ret = "Descend"
           /\ Node(trace[k].path).kind = "Ref"
    /\ \E k \in Idx :
           /\ trace[k].hook = "type_" /\ trace[k].ret = "Descend"
           /\ Node(trace[k].path).kind = "Apply"
           /\ Len(Node(trace[k].path).tys) = 2

\* the events of tr at or below q, and the events of hook h, in order
Under(tr, q) == LET In(e) == IsPrefix(q, e.path) IN SelectSeq(tr, In)
\* path lies in the list f of the node at p
InField(path, p, f) == StrictlyBelow(path, p) /\ path[Len(p) + 1][1] = f
UnderField(tr, p, f) == LET In(e) == InField(e.path, p, f) IN SelectSeq(tr, In)
OfHook(tr, h) == LET Is(e) == e.hook = h IN SelectSeq(tr, Is)

ParamPath(i) == <<<<"parameters", i>>>>
BodyPath == <<<<"body", 0>>>>

\* the function frame part of the trace: enter_scope first, then one var_decl
\* per parameter from left to right, the callbacks of the body after them,
\* exit_scope of the function last and only then
FunctionBrackets ==
    trace # <<>> =>
        /\ trace[1] = Ev("enter_scope", <<>>, "", "")
        /\ EventsOf("enter_scope", <<>>) = {1}
        /\ \A i \in 1..Len(fdef.parameters) :
               /\ Len(trace) >= 1 + i
               /\ trace[1 + i] = Ev("var_decl", ParamPath(i), fdef.parameters[i].var, "")
        /\ \A k \in Idx :
               IsPrefix(BodyPath, trace[k].path) => k > 1 + Len(fdef.parameters)
        /\ \A k \in Idx :
               (k > 1 + Len(fdef.parameters) /\ ~(Done /\ k = Len(trace))) =>
                   IsPrefix(BodyPath, trace[k].path)
        /\ Done =>
               /\ trace[Len(trace)] = Ev("exit_scope", <<>>, "", "")
               /\ EventsOf("exit_scope", <<>>) = {Len(trace)}
        /\ ~Done => EventsOf("exit_scope", <<>>) = {}

RECURSIVE LvDecls(_)
LvDecls(q) ==
    LET lv == Node(q)
    IN CASE lv.kind = "Var" -> <<Ev("var_decl", q, lv.var, "")>>
         [] lv.kind \in {"Unpack", "BorrowUnpack"} ->
              Concat([j \in 1..Len(lv.fields) |->
                          LvDecls(Append(Append(q, <<"fields", j>>), <<"lv", 0>>))])
         [] lv.kind = "Ignore" -> <<>>
DeclsOf(p, f) == Concat([i \in 1..Len(Node(p)[f]) |-> LvDecls(Append(p, <<f, i>>))])

\* the index of the only event of hook h at path p
IndexOf(h, p) == CHOOSE k \in EventsOf(h, p) : TRUE
IsOpenAt(p, k) == \E d \in 1..Len(OpenAt(trace, k)) : OpenAt(trace, k)[d] = p

\* C8: a Bind issues enter_scope, then var_decl for the targets of its
\* pattern in order, then the callbacks of the initializer, so every var_use
\* of the initializer comes after those var_decl and inside the Bind's scope
C8_BindOrder ==
    \A k \in Idx :
        (trace[k].hook = "enter_scope" /\ trace[k].path # <<>>
             /\ Node(trace[k].path).kind = "Bind") =>
            LET sp == trace[k].path
                init == Append(sp, <<"e", 0>>)
                decls == OfHook(UnderField(trace, sp, "decls"), "var_decl")
                started == \E j \in Idx : IsPrefix(init, trace[j].path)
            IN /\ \A j \in Idx : IsPrefix(sp, trace[j].path) => j >= k
               /\ Len(decls) <= Len(DeclsOf(sp, "decls"))
               /\ decls = SubSeq(DeclsOf(sp, "decls"), 1, Len(decls))
               /\ (started \/ Done) => decls = DeclsOf(sp, "decls")
               /\ Done => started
               /\ \A j \in Idx :
                      IsPrefix(init, trace[j].path) =>
                          /\ IsOpenAt(sp, j - 1)
                          /\ \A d \in Idx :
                                 (trace[d].hook = "var_decl" /\ InField(trace[d].path, sp, "decls"))
                                     => d < j

\* a Bind of several variables whose initializer uses a variable, finished
C8_Witness ==
    /\ Done
    /\ \E k \in Idx :
           /\ trace[k].hook = "enter_scope" /\ trace[k].path # <<>>
           /\ Node(trace[k].path).kind = "Bind"
           /\ Len(DeclsOf(trace[k].path, "decls")) >= 2
           /\ \E j \in Idx :
                  /\ trace[j].hook = "var_use"
                  /\ IsPrefix(Append(trace[k].path, <<"e", 0>>), trace[j].path)

\* the type_ call for an explicit type of a Bind
IsBindType(k) ==
    /\ trace[k].hook = "type_"
    /\ Len(trace[k].path) >= 2
    /\ Last(trace[k].path)[1] = "tys"
    /\ Node(Front(trace[k].path)).kind = "Bind"

\* C9 as claimed: the explicit type of a pattern target of a Bind is visited
\* before the var_decl of that target
C9_Original ==
    \A k \in Idx :
        IsBindType(k) =>
            \A j \in Idx :
                (trace[j].hook = "var_decl"
                     /\ IsPrefix(Append(Front(trace[k].path), <<"decls", Last(trace[k].path)[2]>>),
                                 trace[j].path))
                    => k < j

\* C9 as amended: the explicit types of a Bind that are present are visited,
\* in order, after the var_decl of every target of the pattern and before
\* the initializer
C9_BindTypesAfterDecls ==
    /\ \A k \in Idx :
           IsBindType(k) =>
               LET sp == Front(trace[k].path)
               IN /\ Node(trace[k].path).kind # "None"
                  /\ OfHook(UnderField(trace, sp, "decls"), "var_decl") = DeclsOf(sp, "decls")
                  /\ \A j \in Idx :
                         IsPrefix(Append(sp, <<"e", 0>>), trace[j].path) => k < j
                  /\ \A j \in Idx :
                         (j < k /\ InField(trace[j].path, sp, "tys"))
                             => trace[j].path[Len(sp) + 1][2] < Last(trace[k].path)[2]
    /\ \A k \in Idx :
           (trace[k].hook = "exp" /\ Len(trace[k].path) >= 1
                /\ Last(trace[k].path) = <<"e", 0>>
                /\ Node(Front(trace[k].path)).kind = "Bind") =>
               \A i \in 1..Len(Node(Front(trace[k].path)).tys) :
                   Node(Front(trace[k].path)).tys[i].kind # "None" =>
                       Cardinality(EventsOf("type_", Append(Front(trace[k].path), <<"tys", i>>))) = 1

\* a Bind with an explicit type and a missing one, of a pattern that
\* declares variables, finished
C9_Witness ==
    /\ Done
    /\ \E k \in Idx :
           /\ IsBindType(k)
           /\ Len(DeclsOf(Front(trace[k].path), "decls")) >= 2
           /\ \E i \in 1..Len(Node(Front(trace[k].path)).tys) :
                  Node(Front(trace[k].path)).tys[i].kind = "None"

\* a name no function of the model uses
FreshVar == "fresh"

\* C10: a Lambda issues enter_scope, then var_decl for each of its
\* parameters, then the callbacks of its body, then exit_scope; for a
\* parameter that shadows a variable seen before the lambda, var_decl is
\* issued with the parameter's name and the callbacks before the lambda's
\* enter_scope are those of the same function with the parameter renamed
C10_LambdaOrder ==
    \A k \in Idx :
        (trace[k].hook = "exp" /\ trace[k].ret = "Descend"
             /\ Node(trace[k].path).kind = "Lambda") =>
            LET p == trace[k].path
                body == Append(p, <<"body", 0>>)
                decls == OfHook(UnderField(trace, p, "decls"), "var_decl")
                started == \E j \in Idx : IsPrefix(body, trace[j].path)
            IN /\ (Done \/ Len(trace) > k) =>
                      /\ k + 1 \in Idx
                      /\ trace[k + 1] = Ev("enter_scope", p, "", "")
               /\ EventsOf("enter_scope", p) \subseteq {k + 1}
               /\ Len(decls) <= Len(DeclsOf(p, "decls"))
               /\ decls = SubSeq(DeclsOf(p, "decls"), 1, Len(decls))
               /\ (started \/ Done) => decls = DeclsOf(p, "decls")
               /\ \A j \in Idx :
                      IsPrefix(body, trace[j].path) =>
                          /\ IsOpenAt(p, j - 1)
                          /\ \A d \in Idx : InField(trace[d].path, p, "decls") => d < j
               /\ Done =>
                      /\ started
                      /\ Cardinality(EventsOf("exit_scope", p)) = 1
                      /\ \A j \in Idx :
                             StrictlyBelow(trace[j].path, p) => j < IndexOf("exit_scope", p)
               /\ ~Done =>
                      \A x \in EventsOf("exit_scope", p) : \A j \in Idx :
                          StrictlyBelow(trace[j].path, p) => j < x
               /\ \A d \in Idx :
                      (trace[d].hook = "var_decl" /\ InField(trace[d].path, p, "decls")
                           /\ \E u \in 1..k : trace[u].var = trace[d].var) =>
                          LET q == trace[d].path
                              renamed == Replace(fdef, q, LVar(FreshVar, Node(q).ty))
                              twin == TraceOf(renamed, AnswersIn(trace))
                          IN /\ trace[d].var = Node(q).var
                             /\ Len(twin) >= k
                             /\ SubSeq(twin, 1, k) = SubSeq(trace, 1, k)
                             /\ twin[d] = Ev("var_decl", q, FreshVar, "")

\* a finished traversal of a lambda whose parameter x shadows the parameter
\* x of the function, x being used before the lambda
C10_Witness ==
    /\ Done
    /\ \E k \in Idx : \E d \in Idx : \E u \in Idx :
           /\ trace[k].hook = "exp" /\ Node(trace[k].path).kind = "Lambda"
           /\ trace[d].hook = "var_decl" /\ InField(trace[d].path, trace[k].path, "decls")
           /\ u < k /\ trace[u].hook = "var_use" /\ trace[u].var = trace[d].var
           /\ \E b \in Idx : IsPrefix(Append(trace[k].path, <<"body", 0>>), trace[b].path)

\* ------------------------------------------------------------------------
\* The order in which the parts of one node are visited
\* ------------------------------------------------------------------------

\* a part of a node: the path of the part and the hook that announces it
Part(path, hook) == [path |-> path, hook |-> hook]
TypePart(path) == Part(path, "type_")
ExpPart(path) == Part(path, "exp")
\* the types of the list f of the node at p that are present
TypeParts(p, f) ==
    LET all == [i \in 1..Len(Node(p)[f]) |-> TypePart(Append(p, <<f, i>>))]
        IsSome(r) == Node(r.path).kind # "None"
    IN SelectSeq(all, IsSome)

\* every callback of an earlier part comes before every callback of a later one
Ordered(parts) ==
    \A a \in 1..Len(parts) : \A b \in 1..Len(parts) :
        a < b =>
            \A i \in Idx : \A j \in Idx :
                (IsPrefix(parts[a].path, trace[i].path) /\ IsPrefix(parts[b].path, trace[j].path))
                    => i < j
\* every callback below the node at p, its inferred type apart, is one of a part
Covered(p, parts) ==
    \A j \in Idx :
        StrictlyBelow(trace[j].path, p) =>
            \/ IsPrefix(Append(p, <<"ty", 0>>), trace[j].path)
            \/ \E a \in 1..Len(parts) : IsPrefix(parts[a].path, trace[j].path)
\* every part has been announced, once
Visited(parts) ==
    \A a \in 1..Len(parts) : Cardinality(EventsOf(parts[a].hook, parts[a].path)) = 1

\* the parts that a hook announces: types and expressions
Announced(parts) == LET ByHook(r) == r.hook \in {"type_", "exp"} IN SelectSeq(parts, ByHook)

\* the exp hook answered Descend at event k for a node of one of the kinds
Descended(k, kinds) ==
    /\ trace[k].hook = "exp"
    /\ trace[k].ret = "Descend"
    /\ Node(trace[k].path).kind \in kinds

\* after Descend at event k the node is visited as the parts, in that order,
\* all of them and nothing else
VisitedAs(k, parts) ==
    /\ \A a \in 1..Len(parts) : \A j \in Idx :
           IsPrefix(parts[a].path, trace[j].path) => j > k
    /\ Ordered(parts)
    /\ Covered(trace[k].path, parts)
    /\ Done => Visited(Announced(parts))

\* the destructuring targets at or below the binding target at q
RECURSIVE UnpacksIn(_)
UnpacksIn(q) ==
    IF Node(q).kind \in {"Unpack", "BorrowUnpack"}
    THEN {q} \cup UNION {UnpacksIn(Fld(q, "fields", j, "lv")) : j \in 1..Len(Node(q).fields)}
    ELSE {}
UnpacksOf(p, f) == UNION {UnpacksIn(Append(p, <<f, i>>)) : i \in 1..Len(Node(p)[f])}

\* the parts of a destructuring target: its type arguments, then for each
\* field its type and its nested target
UnpackParts(q) ==
    TypeParts(q, "tys")
        \o Concat([j \in 1..Len(Node(q).fields) |->
                      <<TypePart(Fld(q, "fields", j, "ty")),
                        Part(Fld(q, "fields", j, "lv"), "lvalue")>>])
TypePartsOf(parts) == LET IsType(r) == r.hook = "type_" IN SelectSeq(parts, IsType)

\* the scope of a Bind, a Declare or a Lambda has been entered at event k
Declares(k) ==
    /\ trace[k].hook = "enter_scope"
    /\ trace[k].path # <<>>
    /\ Node(trace[k].path).kind \in {"Bind", "Declare", "Lambda"}

RECURSIVE VarsIn(_)
VarsIn(q) ==
    CASE Node(q).kind = "Var" -> {q}
      [] Node(q).kind \in {"Unpack", "BorrowUnpack"} ->
           UNION {VarsIn(Fld(q, "fields", j, "lv")) : j \in 1..Len(Node(q).fields)}
      [] Node(q).kind = "Ignore" -> {}
VarsOf(p, f) == UNION {VarsIn(Append(p, <<f, i>>)) : i \in 1..Len(Node(p)[f])}
\* the var_use callbacks that the list f of targets of the node at p calls for
AsUse(e) == [e EXCEPT !.hook = "var_use"]
UsesOf(p, f) == [i \in 1..Len(DeclsOf(p, f)) |-> AsUse(DeclsOf(p, f)[i])]
LvParts(p, f) == [i \in 1..Len(Node(p)[f]) |-> Part(Append(p, <<f, i>>), "lvalue")]
AssignParts(p) == LvParts(p, "lhs") \o TypeParts(p, "tys") \o <<ExpPart(Sub(p, "ex"))>>

\* C12: an Assign processes its left-hand targets as uses: var_use for each
\* variable target, after the ascribed type of the target, and never
\* var_decl or enter_scope; then it visits the explicit result types that
\* are present, then the right-hand expression
C12_AssignOrder ==
    \A k \in Idx :
        Descended(k, {"Assign"}) =>
            LET p == trace[k].path
                lhs == UnderField(trace, p, "lhs")
                uses == OfHook(lhs, "var_use")
            IN /\ VisitedAs(k, AssignParts(p))
               /\ OfHook(lhs, "var_decl") = <<>>
               /\ OfHook(lhs, "enter_scope") = <<>>
               /\ Len(uses) <= Len(UsesOf(p, "lhs"))
               /\ uses = SubSeq(UsesOf(p, "lhs"), 1, Len(uses))
               /\ Done => uses = UsesOf(p, "lhs")
               /\ \A q \in VarsOf(p, "lhs") :
                      /\ \A i \in Idx : \A j \in Idx :
                             (/\ IsPrefix(Sub(q, "ty"), trace[i].path)
                              /\ trace[j].hook = "var_use"
                              /\ trace[j].path = q) => i < j
                      /\ Done => Visited(<<TypePart(Sub(q, "ty"))>>)

\* a finished Assign with a variable target inside a destructuring target,
\* an absent and a present result type, and var_use issued for the target
C12_Witness ==
    /\ Done
    /\ \E k \in Idx :
           /\ Descended(k, {"Assign"})
           /\ LET p == trace[k].path
              IN /\ TypeParts(p, "tys") # <<>>
                 /\ Len(TypeParts(p, "tys")) < Len(Node(p).tys)
                 /\ \E q \in VarsOf(p, "lhs") :
                        /\ Len(q) > Len(p) + 1
                        /\ \E j \in Idx : trace[j].hook = "var_use" /\ trace[j].path = q
                 /\ EventsOf("exp", Sub(p, "ex")) # {}

\* the loop body of a While or a Loop
LoopBody(p) == IF Node(p).kind = "While" THEN Sub(p, "bex") ELSE Sub(p, "ex")

\* C13 as stated: after Descend on a While or a Loop only the loop body
\* is visited, no callback is made for another sub-expression
C13_Original ==
    \A k \in Idx :
        Descended(k, {"While", "Loop"}) =>
            VisitedAs(k, <<ExpPart(LoopBody(trace[k].path))>>)

\* C13: after Descend on a Loop only the loop body is visited; after
\* Descend on a While the condition is visited and then the loop body, and
\* nothing else
C13_LoopParts ==
    \A k \in Idx :
        LET p == trace[k].path
        IN /\ Descended(k, {"Loop"}) => VisitedAs(k, <<ExpPart(Sub(p, "ex"))>>)
           /\ Descended(k, {"While"}) =>
                  VisitedAs(k, <<ExpPart(Sub(p, "cex")), ExpPart(Sub(p, "bex"))>>)

\* a finished While whose condition and body both had the exp hook called
C13_Witness ==
    /\ Done
    /\ \E k \in Idx :
           /\ Descended(k, {"While"})
           /\ EventsOf("exp", Sub(trace[k].path, "cex")) # {}
           /\ EventsOf("exp", Sub(trace[k].path, "bex")) # {}

\* the number of callbacks of hook h made so far
Calls(h) == Cardinality({k \in Idx : trace[k].hook = h})

\* C14: for a function with a native body, function issues exactly one
\* enter_scope, var_decl for every parameter from left to right, exactly one
\* exit_scope, and no exp hook, no var_use and no other scope bracket
C14_NativeFunction ==
    (fdef.body.kind = "Native" /\ Done) =>
        /\ Calls("enter_scope") = 1
        /\ Calls("exit_scope") = 1
        /\ Calls("exp") = 0
        /\ Calls("var_use") = 0
        /\ trace[1].hook = "enter_scope"
        /\ trace[Len(trace)].hook = "exit_scope"
        /\ OfHook(trace, "var_decl") =
               [i \in 1..Len(fdef.parameters) |->
                   Ev("var_decl", ParamPath(i), fdef.parameters[i].var, "")]

\* a native function with two different parameters, traversed
C14_Witness ==
    /\ Done
    /\ fdef.body.kind = "Native"
    /\ Len(fdef.parameters) = 2
    /\ fdef.parameters[1].var # fdef.parameters[2].var
    /\ Calls("var_decl") = 2

\* C15: a visitor that changes nothing and answers Descend everywhere, run
\* twice over the same function, leaves the function as it was after each
\* run and gets the same sequence of callbacks, with the same arguments, in
\* the second run as in the first
C15_RunTwice ==
    /\ Done => fdef = orig
    /\ run >= 2 =>
           /\ Len(trace) <= Len(first)
           /\ trace = SubSeq(first, 1, Len(trace))
           /\ Done => trace = first

\* a second traversal, finished, of a function with a scope inside the body,
\* a type application and a variable reference
C15_Witness ==
    /\ run = 2
    /\ Done
    /\ \E k \in Idx : trace[k].hook = "enter_scope" /\ trace[k].path # <<>>
    /\ \E k \in Idx : trace[k].hook = "infer_abilities"
    /\ \E k \in Idx : trace[k].hook = "var_use"

\* C16: after Descend on an IfElse the condition is visited, then the true
\* branch, then the false branch, all three and in that order, whatever the
\* value of the condition
C16_IfElseOrder ==
    \A k \in Idx :
        Descended(k, {"IfElse"}) =>
            LET p == trace[k].path
            IN VisitedAs(k, <<ExpPart(Sub(p, "cex")), ExpPart(Sub(p, "iex")),
                              ExpPart(Sub(p, "eex"))>>)

\* a finished IfElse on the literal false whose true branch had its
\* variable reported
C16_Witness ==
    /\ Done
    /\ \E k \in Idx :
           /\ Descended(k, {"IfElse"})
           /\ LET cex == Node(Sub(trace[k].path, "cex"))
              IN "value" \in DOMAIN cex /\ cex.value = FALSE
           /\ \E j \in Idx :
                  trace[j].hook = "var_use" /\ trace[j].path = Sub(trace[k].path, "iex")

\* the callbacks made with the node at p itself
At_(p) == {j \in Idx : trace[j].path = p}
VarRefKinds == {"Use", "Copy", "Move", "BorrowLocal"}

\* C17: after Descend on a Use, Copy, Move or BorrowLocal there is one
\* var_use for the variable referred to and nothing else; after Descend on a
\* VarCall there is var_use for the callee variable and then the argument
\* expression is visited
C17_VarUse ==
    \A k \in Idx :
        LET p == trace[k].path
            use == Ev("var_use", p, Node(p).var, "")
        IN /\ Descended(k, VarRefKinds) =>
                  /\ k < Len(trace)
                  /\ trace[k + 1] = use
                  /\ At_(p) = {k, k + 1}
                  /\ Covered(p, <<>>)
           /\ Descended(k, {"VarCall"}) =>
                  /\ k < Len(trace)
                  /\ trace[k + 1] = use
                  /\ At_(p) = {k, k + 1}
                  /\ VisitedAs(k + 1, <<ExpPart(Sub(p, "ex"))>>)

\* a finished VarCall that was descended into and whose argument, a Use of
\* another variable that was descended into as well, reported that variable
C17_Witness ==
    /\ Done
    /\ \E k \in Idx :
           /\ Descended(k, {"VarCall"})
           /\ \E i \in Idx :
                  /\ Descended(i, VarRefKinds)
                  /\ trace[i].path = Sub(trace[k].path, "ex")
                  /\ \E j \in Idx :
                         /\ trace[j].hook = "var_use"
                         /\ trace[j].path = trace[i].path
                         /\ trace[j].var # Node(trace[k].path).var

\* C18: for a ModuleCall the type arguments are visited in order, then the
\* parameter types in order, then the one argument expression
C18_ModuleCallOrder ==
    \A k \in Idx :
        Descended(k, {"ModuleCall"}) =>
            LET p == trace[k].path
            IN VisitedAs(k, TypeParts(p, "type_arguments")
                                \o TypeParts(p, "parameter_types")
                                \o <<ExpPart(Sub(p, "arguments"))>>)

\* a finished ModuleCall with two type arguments and two parameter types,
\* one of them a type application that was looked into
C18_Witness ==
    /\ Done
    /\ \E k \in Idx :
           /\ Descended(k, {"ModuleCall"})
           /\ Len(Node(trace[k].path).type_arguments) = 2
           /\ Len(Node(trace[k].path).parameter_types) = 2
           /\ \E j \in Idx :
                  /\ trace[j].hook = "infer_abilities"
                  /\ IsPrefix(Append(trace[k].path, <<"type_arguments", 2>>), trace[j].path)
           /\ EventsOf("exp", Sub(trace[k].path, "arguments")) # {}

\* the parts of a Pack: its type arguments, then field by field the type of
\* the field and its initializer
PackParts(p) ==
    TypeParts(p, "tys")
        \o Concat([j \in 1..Len(Node(p).fields) |->
                      <<TypePart(Fld(p, "fields", j, "ty")),
                        ExpPart(Fld(p, "fields", j, "ex"))>>])

C20_BinopOrder ==
    \A k \in Idx :
        Descended(k, {"BinopExp"}) =>
            LET p == trace[k].path
            IN VisitedAs(k, <<TypePart(Sub(p, "bty")), ExpPart(Sub(p, "lex")),
                              ExpPart(Sub(p, "rex"))>>)

\* a finished BinopExp whose result type, a type application, was looked
\* into and whose two operands were visited
C20_Witness ==
    /\ Done
    /\ \E k \in Idx :
           /\ Descended(k, {"BinopExp"})
           /\ \E j \in Idx :
                  /\ trace[j].hook = "infer_abilities"
                  /\ IsPrefix(Sub(trace[k].path, "bty"), trace[j].path)
           /\ EventsOf("exp", Sub(trace[k].path, "lex")) # {}
           /\ EventsOf("exp", Sub(trace[k].path, "rex")) # {}

\* the forms with one operand: those that hold a type of their own, and
\* those that hold only the operand
TypedKinds == {"Vector", "Cast", "Annotate"}
OperandKinds ==
    {"UnaryExp", "Dereference", "Borrow", "TempBorrow", "Return", "Abort", "Builtin"}

Region(q) ==
    LET at == {n \in 1..Len(q) : q[n][1] = "decls"}
    IN IF at = {} THEN <<>>
       ELSE SubSeq(q, 1, (CHOOSE n \in at : \A m \in at : m <= n) - 1)

\* C22: every var_decl is issued while a scope opened by the traversal is
\* open, and after the enter_scope of the function, Bind, Declare or Lambda
\* that introduces the binding, that scope being the innermost open one
C22_DeclInScope ==
    \A k \in Idx :
        trace[k].hook = "var_decl" =>
            LET open == OpenAt(trace, k)
                r == Region(trace[k].path)
            IN /\ open # <<>>
               /\ \E j \in 1..(k - 1) : trace[j] = Ev("enter_scope", r, "", "")
               /\ Last(open) = r

\* a var_decl of a Lambda parameter inside a Bind inside a Lambda, three
\* scopes of the traversal being open besides the one of the function
C22_Witness ==
    \E k \in Idx :
        /\ trace[k].hook = "var_decl"
        /\ Len(OpenAt(trace, k)) >= 4
        /\ Node(Region(trace[k].path)).kind = "Lambda"

\* ------------------------------------------------------------------------
\* The expressions of a function
\* ------------------------------------------------------------------------

\* the expressions held by the statements of the sequence at p
SeqExps(p) ==
    {Append(Append(p, <<"seq", i>>), <<"e", 0>>) :
        i \in {j \in 1..Len(Node(p).seq) : Node(p).seq[j].kind \in {"Bind", "Seq"}}}

\* the expressions held by the expression at p
ChildExps(p) ==
    LET k == Node(p).kind
    IN CASE k = "ModuleCall" -> {Sub(p, "arguments")}
         [] k = "Lambda" -> {Sub(p, "body")}
         [] k = "IfElse" -> {Sub(p, "cex"), Sub(p, "iex"), Sub(p, "eex")}
         [] k = "While" -> {Sub(p, "cex"), Sub(p, "bex")}
         [] k = "Block" -> SeqExps(p)
         [] k = "Mutate" -> {Sub(p, "dex"), Sub(p, "sex")}
         [] k = "BinopExp" -> {Sub(p, "lex"), Sub(p, "rex")}
         [] k = "Pack" -> {Fld(p, "fields", j, "ex") : j \in 1..Len(Node(p).fields)}
         [] k = "ExpList" -> {Fld(p, "items", j, "ex") : j \in 1..Len(Node(p).items)}
         [] k \in {"VarCall", "Assign", "Loop"} \cup TypedKinds \cup OperandKinds ->
              {Sub(p, "ex")}
         [] OTHER -> {}

RECURSIVE ExpsIn(_)
ExpsIn(p) == {p} \cup UNION {ExpsIn(q) : q \in ChildExps(p)}

\* every expression of the body of the function
BodyExps ==
    IF fdef.body.kind = "Native" THEN {} ELSE UNION {ExpsIn(q) : q \in SeqExps(BodyPath)}

\* the exp hook answered Stop for an expression that holds the one at q
Pruned(q) ==
    \E k \in Idx :
        /\ trace[k].hook = "exp"
        /\ trace[k].ret = "Stop"
        /\ StrictlyBelow(q, trace[k].path)

\* function has returned after its exit_scope, and the exp hook was called
\* for every expression that no Stop cut off
Completed ==
    /\ Done
    /\ trace # <<>>
    /\ Last(trace) = Ev("exit_scope", <<>>, "", "")
    /\ \A q \in BodyExps : Pruned(q) \/ EventsOf("exp", q) # {}

\* C23: function terminates whatever the hooks answer, and runs to
\* completion: a Stop for one node keeps no callback from the nodes outside
\* that node, and the exit_scope of the function is reached
C23_RunsToCompletion == (~Done) ~> Completed

\* function has returned after a Stop for an expression that holds others,
\* and the exp hook was called for an expression after that one
C23_Witness ==
    /\ Completed
    /\ \E k \in Idx :
           /\ trace[k].hook = "exp"
           /\ trace[k].ret = "Stop"
           /\ ChildExps(trace[k].path) # {}
           /\ \E j \in Idx : j > k /\ trace[j].hook = "exp"

\* ------------------------------------------------------------------------
\* The types of a function
\* ------------------------------------------------------------------------

\* the type at t and the types it is made of; an absent type is none
RECURSIVE TypesIn(_)
TypesIn(t) ==
    CASE Node(t).kind = "None" -> {}
      [] Node(t).kind = "Ref" -> {t} \cup TypesIn(Sub(t, "ty"))
      [] Node(t).kind = "Apply" ->
           {t} \cup UNION {TypesIn(Append(t, <<"tys", i>>)) : i \in 1..Len(Node(t).tys)}
      [] OTHER -> {t}
TypeList(p, f) == UNION {TypesIn(Append(p, <<f, i>>)) : i \in 1..Len(Node(p)[f])}

\* the types held by the binding target at q
RECURSIVE LvTypes(_)
LvTypes(q) ==
    CASE Node(q).kind = "Var" -> TypesIn(Sub(q, "ty"))
      [] Node(q).kind \in {"Unpack", "BorrowUnpack"} ->
           TypeList(q, "tys")
               \cup UNION {TypesIn(Fld(q, "fields", j, "ty"))
                               \cup LvTypes(Fld(q, "fields", j, "lv")) :
                           j \in 1..Len(Node(q).fields)}
      [] OTHER -> {}
LvListTypes(p, f) == UNION {LvTypes(Append(p, <<f, i>>)) : i \in 1..Len(Node(p)[f])}

\* the types held by the statements of the sequence at p
SeqTypes(p) ==
    UNION {LET sp == Append(p, <<"seq", i>>)
           IN CASE Node(sp).kind = "Bind" -> LvListTypes(sp, "decls") \cup TypeList(sp, "tys")
                [] Node(sp).kind = "Declare" -> LvListTypes(sp, "decls")
                [] OTHER -> {} :
           i \in 1..Len(Node(p).seq)}

\* the types held by the expression at p itself
OwnTypes(p) ==
    LET k == Node(p).kind
    IN TypesIn(Sub(p, "ty"))
           \cup CASE k = "ModuleCall" ->
                       TypeList(p, "type_arguments") \cup TypeList(p, "parameter_types")
                  [] k = "Lambda" -> LvListTypes(p, "decls")
                  [] k = "Block" -> SeqTypes(p)
                  [] k = "BinopExp" -> TypesIn(Sub(p, "bty"))
                  [] k = "Pack" ->
                       TypeList(p, "tys")
                           \cup UNION {TypesIn(Fld(p, "fields", j, "ty")) :
                                           j \in 1..Len(Node(p).fields)}
                  [] k = "ExpList" ->
                       UNION {IF Node(p).items[j].kind = "Single"
                              THEN TypesIn(Fld(p, "items", j, "ty"))
                              ELSE TypeList(Append(p, <<"items", j>>), "tys") :
                              j \in 1..Len(Node(p).items)}
                  [] k = "Assign" -> LvListTypes(p, "lhs") \cup TypeList(p, "tys")
                  [] k \in TypedKinds -> TypesIn(Sub(p, "ety"))
                  [] OTHER -> {}

\* every type of the body of the function, and the declared types of its
\* parameters
BodyTypes ==
    IF fdef.body.kind = "Native" THEN {}
    ELSE SeqTypes(BodyPath) \cup UNION {OwnTypes(q) : q \in BodyExps}
ParamTypes ==
    UNION {TypesIn(Append(ParamPath(i), <<"ty", 0>>)) : i \in 1..Len(fdef.parameters)}

\* the traversal of a Visitor that overrides no hook: exp and type_ have
\* answered Descend throughout and, once function has returned, the
\* function is as it was, the exp hook has been called for every expression
\* and the type_ hook for every type of the set
DefaultTraversal(tset) ==
    visitor = "default" =>
        /\ \A k \in Idx : trace[k].hook \in {"exp", "type_"} => trace[k].ret = "Descend"
        /\ Done =>
               /\ fdef = orig
               /\ \A q \in BodyExps : EventsOf("exp", q) # {}
               /\ \A t \in tset : EventsOf("type_", t) # {}

IsCall(p) ==
    /\ p # <<>>
    /\ "kind" \in DOMAIN Node(p)
    /\ Node(p).kind \notin {"Bind", "Declare", "Seq"}
\* the calls that have made a callback
Prefixes(q) == {SubSeq(q, 1, n) : n \in 1..Len(q)}
Calls_ == {p \in UNION {Prefixes(trace[k].path) : k \in Idx} : IsCall(p)}
\* the call on the node at p has returned: nothing of it is left to do
Returned(p) == \A i \in 1..Len(stack) : ~IsPrefix(p, stack[i].path)
\* the number of callbacks of hook h made by the call on the node at p
CallsBy(p, h) == Cardinality({k \in Idx : trace[k].hook = h /\ IsPrefix(p, trace[k].path)})

\* C28: one call of exp, exp_unannotated, sequence, type_ or lvalue_list
\* closes no scope it has not opened and, when it returns, has issued as
\* many exit_scope as enter_scope, also when a hook answered Stop in it
C28_CallsScopeNeutral ==
    \A p \in Calls_ :
        /\ CallsBy(p, "exit_scope") <= CallsBy(p, "enter_scope")
        /\ Returned(p) => CallsBy(p, "exit_scope") = CallsBy(p, "enter_scope")

\* a call of exp that has returned while the traversal goes on, that opened
\* two scopes, and in which a hook answered Stop
C28_Witness ==
    /\ ~Done
    /\ \E p \in Calls_ :
           /\ Returned(p)
           /\ Node(p).kind \in {"Lambda", "Block"}
           /\ CallsBy(p, "enter_scope") >= 2
           /\ \E k \in Idx : trace[k].ret = "Stop" /\ StrictlyBelow(trace[k].path, p)

\* C29: when no hook has answered Stop, the exp hook is called for
\* expressions of the body only, for none of them twice, and for every one
\* of them once by the time function returns
C29_ExpOncePerNode ==
    stops = 0 =>
        /\ \A k \in Idx : trace[k].hook = "exp" => trace[k].path \in BodyExps
        /\ \A q \in BodyExps : Cardinality(EventsOf("exp", q)) <= 1
        /\ Done => \A q \in BodyExps : Cardinality(EventsOf("exp", q)) = 1

\* a finished traversal without Stop of a body with an expression in a
\* Lambda in a Bind in a Block in a Lambda
C29_Witness ==
    /\ Done
    /\ stops = 0
    /\ \E q \in BodyExps :
           /\ Len(q) >= 7
           /\ \E n \in 1..Len(q) : q[n][1] = "seq" /\ n > 2
           /\ Cardinality(EventsOf("exp", q)) = 1

\* the type_ hook answered Stop at event k for the inferred type of the
\* expression at p, or for a type inside it
StoppedInTypeOf(k, p) ==
    /\ trace[k].hook = "type_"
    /\ trace[k].ret = "Stop"
    /\ IsPrefix(Sub(p, "ty"), trace[k].path)
\* the call of the exp hook for the expression at p is still to come
HookPending(p) ==
    \E i \in 1..Len(stack) : stack[i] = Frame("exp", p, "hook")

\* C30: a Stop of the type_ hook for the inferred type of an expression, or
\* for a part of it, cuts off nothing but what is inside the stopped type:
\* the exp hook for the expression is called afterwards and, when it
\* answers Descend, the expressions held by the expression are visited
C30_TypeStopKeepsExp ==
    \A k \in Idx : \A p \in BodyExps :
        StoppedInTypeOf(k, p) =>
            /\ \A j \in Idx : ~StrictlyBelow(trace[j].path, trace[k].path)
            /\ \A j \in EventsOf("exp", p) : j > k
            /\ HookPending(p) \/ EventsOf("exp", p) # {}
            /\ \A j \in EventsOf("exp", p) :
                   (trace[j].ret = "Descend" /\ Done) =>
                       \A q \in ChildExps(p) : EventsOf("exp", q) # {}

\* a finished traversal in which the type_ hook answered Stop for the
\* inferred type, a type application, of an expression that holds others,
\* the exp hook answered Descend for it and its operands were visited
C30_Witness ==
    /\ Done
    /\ \E k \in Idx : \E p \in BodyExps :
           /\ StoppedInTypeOf(k, p)
           /\ Node(trace[k].path).kind = "Apply"
           /\ ChildExps(p) # {}
           /\ \E j \in EventsOf("exp", p) : trace[j].ret = "Descend"
           /\ \A q \in ChildExps(p) : EventsOf("exp", q) # {}

\* C27: the Dispatcher keeps nothing between invocations: the callbacks of
\* an invocation of function that follows another one on the same
\* Dispatcher are those of a new Dispatcher on the same function, its hooks
\* giving the same answers
C27_NoStateBetweenCalls ==
    (run >= 2 /\ visitor = "any") =>
        LET fresh == TraceOf(fdef, AnswersIn(trace))
        IN /\ Len(trace) <= Len(fresh)
           /\ trace = SubSeq(fresh, 1, Len(trace))
           /\ Done => trace = fresh

\* a second invocation, finished, on a function with a body, after an
\* invocation in which a hook answered Stop
C27_Witness ==
    /\ run >= 2
    /\ visitor = "any"
    /\ Done
    /\ stops >= 1
    /\ \A k \in Idx : trace[k].ret # "Stop"
    /\ \E k \in Idx : trace[k].hook = "var_use"

\* the callbacks made for the inferred type of the expression at p
InTypeOf(p) == {j \in Idx : IsPrefix(Sub(p, "ty"), trace[j].path)}

\* the type ty, standing at path t, and the types it is made of
RECURSIVE PathsOfType(_, _)
PathsOfType(ty, t) ==
    CASE ty.kind = "None" -> {}
      [] ty.kind = "Ref" -> {t} \cup PathsOfType(ty.ty, Sub(t, "ty"))
      [] ty.kind = "Apply" ->
           {t} \cup UNION {PathsOfType(ty.tys[i], Append(t, <<"tys", i>>)) :
                               i \in 1..Len(ty.tys)}
      [] OTHER -> {t}

\* the rewrite r of the exp hook was dispatched as C26 says
DispatchedAfterRewrite(r) ==
    LET p == r.path
        k == r.at
        visited == {trace[j].path : j \in InTypeOf(p)}
        was == PathsOfType(r.old.ty, Sub(p, "ty"))
    IN /\ k \in Idx
       /\ trace[k] = Ev("exp", p, "", "Descend")
       /\ EventsOf("exp", p) = {k}
       /\ \A j \in InTypeOf(p) : j < k
       /\ visited \subseteq was
       /\ (\A j \in InTypeOf(p) : trace[j].ret # "Stop") => visited = was
       /\ \A j \in Idx :
              (StrictlyBelow(trace[j].path, p) /\ j \notin InTypeOf(p)) =>
                  /\ j > k
                  /\ trace[j].path[Len(p) + 1][1] \in DOMAIN Node(p)
       /\ Node(p).kind = "Dereference" => VisitedAs(k, <<ExpPart(Sub(p, "ex"))>>)
       /\ Node(p).kind = "Unit" => Covered(p, <<>>)

\* C26: when the exp hook rewrites an expression and answers Descend, the
\* inferred type visited is the one the expression had before, all of it
\* before the hook, and the installed one is not visited; the hook is not
\* called again for the expression; and what is visited below the
\* expression are the parts of its new contents, not those it had
C26_RewriteThenDescend ==
    \A i \in 1..Len(rewritten) : DispatchedAfterRewrite(rewritten[i])

\* a finished traversal in which the hook put a dereference of an applied
\* type in the place of an IfElse of an atomic type: one callback was made
\* for the inferred type, and the new operand was visited
C26_Witness ==
    /\ Done
    /\ \E i \in 1..Len(rewritten) :
           LET p == rewritten[i].path
               old == rewritten[i].old
           IN /\ old.kind = "IfElse"
              /\ old.ty.kind \in AtomicKinds
              /\ Node(p).kind = "Dereference"
              /\ Node(p).ty.kind = "Apply"
              /\ Cardinality(InTypeOf(p)) = 1
              /\ EventsOf("exp", Sub(p, "ex")) # {}

\* ------------------------------------------------------------------------
\* Reading the lock file
\* ------------------------------------------------------------------------

\* the lock file can be read and matches both schemas
WellFormed(file) == file.readable /\ file.header.parsed /\ file.dependency.parsed

\* C25: read returns an error, and no list, whenever the version of the
\* header is greater than VERSION; for a well-formed lock file of a version
\* that is not greater it returns the dependencies listed, the empty list
\* when the file has no dependency entry
C25_ReadLock ==
    result # NotRead =>
        /\ (lock.header.parsed /\ lock.header.version > VERSION) =>
               result.kind = "Err" /\ "value" \notin DOMAIN result
        /\ (WellFormed(lock) /\ lock.header.version <= VERSION) =>
               /\ result.kind = "Ok"
               /\ ~lock.dependency.some => result.value = <<>>
               /\ lock.dependency.some => result.value = lock.dependency.list

\* a well-formed lock file of version VERSION + 1 that lists two
\* dependencies has been read, with an error for result
C25_Witness ==
    /\ result # NotRead
    /\ WellFormed(lock)
    /\ lock.header.version = VERSION + 1
    /\ lock.dependency.some
    /\ Len(lock.dependency.list) = 2
    /\ result.kind = "Err"

\* ------------------------------------------------------------------------
\* Nested applied types
\* ------------------------------------------------------------------------

\* the applied types that hold the type at b among their type arguments,
\* directly or behind references or other applied types
ApplyAbove(b) ==
    {a \in Prefixes(b) : a # b /\ "kind" \in DOMAIN Node(a) /\ Node(a).kind = "Apply"}

\* the type_ hook has answered Descend for every type it was handed at or
\* below a
AllDescend(a) ==
    \A k \in Idx :
        (trace[k].hook = "type_" /\ IsPrefix(a, trace[k].path)) => trace[k].ret = "Descend"

\* C31: with a type_ hook that answers Descend, for an applied type A that
\* holds an applied type B among its (possibly reference-wrapped) type
\* arguments the type_ hook fires for A before it fires for B and
\* infer_abilities fires for B before it fires for A, both having fired when
\* the traversal is done; a reference is never handed to infer_abilities
C31_PreAndPostOrder ==
    /\ \A kb \in Idx :
           (trace[kb].hook = "type_" /\ Node(trace[kb].path).kind = "Apply") =>
               \A a \in ApplyAbove(trace[kb].path) :
                   LET b == trace[kb].path
                   IN /\ \E ka \in EventsOf("type_", a) : ka < kb
                      /\ \A ka \in EventsOf("type_", a) : ka < kb
                      /\ AllDescend(a) =>
                             /\ \A ia \in EventsOf("infer_abilities", a) :
                                    \E ib \in EventsOf("infer_abilities", b) : ib < ia
                             /\ \A ia \in EventsOf("infer_abilities", a) :
                                    \A ib \in EventsOf("infer_abilities", b) : ib < ia
                             /\ Done => EventsOf("infer_abilities", a) # {}
    /\ \A k \in Idx : trace[k].hook = "infer_abilities" => Node(trace[k].path).kind # "Ref"

\* a finished traversal in which infer_abilities fired for an applied type
\* and for the applied type behind a reference among its type arguments, the
\* reference having been handed to the type_ hook
C31_Witness ==
    /\ Done
    /\ \E ka, kb, kr \in Idx :
           /\ trace[ka].hook = "infer_abilities"
           /\ trace[kb].hook = "infer_abilities"
           /\ trace[kr].hook = "type_"
           /\ Node(trace[kr].path).kind = "Ref"
           /\ StrictlyBelow(trace[kr].path, trace[ka].path)
           /\ StrictlyBelow(trace[kb].path, trace[kr].path)
           /\ AllDescend(trace[ka].path)

\* ------------------------------------------------------------------------
\* Intrinsic declarations
\* ------------------------------------------------------------------------

\* the two maps are inverses of each other
Inverses(f, g) ==
    /\ DOMAIN g = Values(f)
    /\ DOMAIN f = Values(g)
    /\ \A k \in DOMAIN f : g[f[k]] = k
    /\ \A q \in DOMAIN g : f[g[q]] = q

DuplicateReported ==
    \E i \in 1..Len(errors) :
        errors[i] \in {"duplicated intrinsic mapping for move function",
                       "duplicated intrinsic mapping for spec function"}

\* the mapping given for the i-th associated function names a function of
\* another module, or one that the table of this module does not hold, or
\* spec functions that are not exactly one
Refused(i) ==
    LET name == associated_funs[i].name
        val == given[name]
        q == QualifiedSymbol(module_name, val.symbol)
    IN /\ name \in DOMAIN given
       /\ val.kind \in {"Symbol", "QualifiedSymbol"}
       /\ \/ val.kind = "QualifiedSymbol" /\ val.module_name # module_name
          \/ associated_funs[i].is_move_fun /\ q \notin DOMAIN fun_table
          \/ ~associated_funs[i].is_move_fun /\ q \notin DOMAIN spec_fun_table
          \/ /\ ~associated_funs[i].is_move_fun
             /\ q \in DOMAIN spec_fun_table
             /\ Len(spec_fun_table[q]) # 1

\* C32: when populate_intrinsic_decl has gone through all associated
\* functions and reported no duplicated mapping, intrinsic_to_move_fun and
\* move_fun_to_intrinsic are inverses of each other, and so are
\* intrinsic_to_spec_fun and spec_fun_to_intrinsic; a mapping whose target
\* is not found, is not unique or lies in another module has no entry in any
\* of the maps
C32_MapsInverse ==
    Populated =>
        /\ ~DuplicateReported =>
               /\ Inverses(decl.intrinsic_to_move_fun, decl.move_fun_to_intrinsic)
               /\ Inverses(decl.intrinsic_to_spec_fun, decl.spec_fun_to_intrinsic)
        /\ \A i \in 1..Len(associated_funs) :
               Refused(i) =>
                   LET name == associated_funs[i].name
                   IN /\ name \notin DOMAIN decl.intrinsic_to_move_fun
                      /\ name \notin DOMAIN decl.intrinsic_to_spec_fun
                      /\ name \notin Values(decl.move_fun_to_intrinsic)
                      /\ name \notin Values(decl.spec_fun_to_intrinsic)

\* populate_intrinsic_decl has returned without a duplicated mapping, having
\* entered two move functions and a spec function and refused a mapping to
\* another module
C32_Witness ==
    /\ Populated
    /\ ~DuplicateReported
    /\ Cardinality(DOMAIN decl.intrinsic_to_move_fun) = 2
    /\ Cardinality(DOMAIN decl.intrinsic_to_spec_fun) = 1
    /\ \E i \in 1..Len(associated_funs) :
           /\ Refused(i)
           /\ given[associated_funs[i].name].kind = "QualifiedSymbol"

\* the ids held by a map of the annotation
IdsStored ==
    Values(annotation.intrinsic_structs)
        \cup Values(annotation.intrinsic_move_funs)
        \cup Values(annotation.intrinsic_spec_funs)

\* C33: after any sequence of add_decl calls the declarations added are
\* stored under the ids 0, 1, 2, ... in call order, one id each, and every
\* id held by intrinsic_structs, intrinsic_move_funs and intrinsic_spec_funs
\* is a key of decls
C33_IdsDistinctAndKnown ==
    /\ DOMAIN annotation.decls = 0..(Len(added) - 1)
    /\ \A i \in 1..Len(added) : annotation.decls[i - 1] = added[i]
    /\ IdsStored \subseteq DOMAIN annotation.decls

\* three declarations have been added, two of them for the same struct, and
\* a move function and a spec function have an id
C33_Witness ==
    /\ Len(added) = 3
    /\ added[1].move_type = added[3].move_type
    /\ added[1] # added[3]
    /\ DOMAIN annotation.intrinsic_move_funs # {}
    /\ DOMAIN annotation.intrinsic_spec_funs # {}

====
